---- MODULE Spec2Model ----
(***************************************************************************)
(* A model of the LSM storage engine of lsm/: the memtable, the Bloom      *)
(* filter, the SSTable files and the LSMTree coordinator with its          *)
(* compaction strategies; and, each on its own, the counting filter of     *)
(* lsm/bloom and the B-tree of btree/.                                     *)
(*                                                                         *)
(* Strings (keys, values, file names, lines of a table file) are sequences *)
(* of byte codes, compared as Go compares strings: byte by byte.           *)
(* The data directory is the function disk from file name to file; a file  *)
(* is its sequence of lines and its modification time. All files live in   *)
(* one directory, so a path is modelled by its base name.                  *)
(***************************************************************************)
EXTENDS Integers, Sequences, FiniteSets, TLC

VARIABLES
    Mem,        \* LSMTree.Mem: [Data: key -> value, FlushThreshold: Int]
    Tables,     \* LSMTree.Tables: sequence of [Path, Bloom]
    nextID,     \* LSMTree.nextID
    strategy,   \* LSMTree.strategy: "nil" or the Name() of the strategy
    stats,      \* LSMTree.stats: <<>> for nil, else <<LSMStats record>>
    disk,       \* the data directory: file name -> [lines, mtime]
    now,        \* the wall clock, in seconds since the Unix epoch
    written,    \* history: key -> the value a reader is entitled to
    flushed,    \* history: key -> the value of its last successful flush
    opens,      \* history: number of re-opens of the directory so far
    compacted,  \* history: whether a compaction has merged runs so far
    lastOp,     \* history: the operation that produced this state
    filter,     \* a bloom.Bloom or bloom.CountingBloom on its own
    added,      \* history: how many times each key is in the filter
    tree,       \* a btree.BTree on its own
    calls       \* history: the Put and Get calls made on the instance

vars == <<Mem, Tables, nextID, strategy, stats, disk, now,
          written, flushed, opens, compacted, lastOp,
          filter, added, tree, calls>>

\* the components that are not part of an LSMTree
others == <<filter, added, tree, calls>>

----
\* Bounds of the model.

\* Put is disabled once nextID reaches MaxID.
MaxID == 4
\* Number of re-opens of the data directory.
MaxOpens == 1
\* Flush thresholds an engine is opened with: 1..MaxThreshold.
MaxThreshold == 2
\* Put is disabled once TotalWrites of an instance reaches MaxWrites.
MaxWrites == 6
\* Largest sequence number reached in the long-directory specification.
MaxLongID == 12
\* Thresholds of the memtable specification: 1..MaxMemThreshold.
MaxMemThreshold == 4
\* The clock reading, in seconds since the Unix epoch, when the model starts.
StartTime == 1700000000
\* Number of times one key is added to a filter on its own.
MaxAdds == 2
\* Entries a B-tree on its own grows to.
MaxEntries == 5
\* Put and Get calls counted on one instance.
MaxPuts == 4
MaxGets == 2

----
\* Bytes and strings.

TAB == 9
\* "ss-" and ".sst" of fmt.Sprintf("ss-%d.sst", id)
PathPrefix == <<115, 115, 45>>
PathSuffix == <<46, 115, 115, 116>>

\* The keys "a", "b" and the values "1", "22".
Keys == {<<97>>, <<98>>}
Values == {<<49>>, <<50, 50>>}
\* The only key written in the long-directory specification.
LongKey == <<97>>
\* The keys "a", "b", "c" of the memtable specification.
MemKeys == {<<97>>, <<98>>, <<99>>}

\* a < b on Go strings: lexicographic on bytes, a proper prefix is smaller.
RECURSIVE StrLess(_, _)
StrLess(a, b) ==
    IF b = <<>> THEN FALSE
    ELSE IF a = <<>> THEN TRUE
    ELSE IF Head(a) # Head(b) THEN Head(a) < Head(b)
    ELSE StrLess(Tail(a), Tail(b))

\* The decimal digits of n >= 0, as %d prints them.
RECURSIVE Digits(_)
Digits(n) == IF n < 10 THEN <<48 + n>> ELSE Digits(n \div 10) \o <<48 + (n % 10)>>

\* fmt.Sprintf("ss-%d.sst", id)
PathOf(id) == PathPrefix \o Digits(id) \o PathSuffix

\* strings.SplitN(line, "\t", 2): one part when the line has no tab, else
\* the text before the first tab and the text after it.
RECURSIVE TabIndex(_, _)
TabIndex(line, i) ==
    IF i > Len(line) THEN 0
    ELSE IF line[i] = TAB THEN i
    ELSE TabIndex(line, i + 1)

SplitN2(line) ==
    LET t == TabIndex(line, 1) IN
    IF t = 0 THEN <<line>>
    ELSE <<SubSeq(line, 1, t - 1), SubSeq(line, t + 1, Len(line))>>

\* fmt.Sprintf("%s\t%s\n", kv.Key, kv.Value), without the line terminator:
\* a file is kept as the sequence of lines bufio.Scanner yields.
FormatLine(kv) == kv.Key \o <<TAB>> \o kv.Value

\* the k of bloom.New(m, 3) in sstable.New and sstable.Load
BloomK == 3

----
\* hash/fnv New64a over 64-bit words kept as four 16-bit limbs, low first.

Limb == 256 * 256
FnvOffset64 == <<8997, 33826, 40164, 52210>>    \* 0xcbf29ce484222325
FnvPrimeLow == 435                              \* 0x100000001b3 = 2^40 + 0x1b3

RECURSIVE XorBits(_, _, _)
XorBits(a, b, n) ==
    IF n = 0 THEN 0
    ELSE (((a % 2) + (b % 2)) % 2) + 2 * XorBits(a \div 2, b \div 2, n - 1)

\* h * 0x100000001b3 mod 2^64
FnvMul(h) ==
    LET s0 == h[1] * FnvPrimeLow
        s1 == h[2] * FnvPrimeLow + (s0 \div Limb)
        s2 == h[3] * FnvPrimeLow + (h[1] % 256) * 256 + (s1 \div Limb)
        s3 == h[4] * FnvPrimeLow + (h[1] \div 256) + (h[2] % 256) * 256 + (s2 \div Limb)
    IN <<s0 % Limb, s1 % Limb, s2 % Limb, s3 % Limb>>

\* one step of FNV-1a: xor the byte into the low bits, then multiply
FnvByte(h, b) ==
    FnvMul(<<(h[1] \div 256) * 256 + XorBits(h[1] % 256, b, 8), h[2], h[3], h[4]>>)

RECURSIVE FnvWrite(_, _)
FnvWrite(h, bytes) ==
    IF bytes = <<>> THEN h ELSE FnvWrite(FnvByte(h, Head(bytes)), Tail(bytes))

\* h mod m for a 64-bit h and a small m
ModLimbs(h, m) ==
    LET p1 == Limb % m
        p2 == (p1 * p1) % m
        p3 == (p2 * p1) % m
    IN ((h[1] % m) + (h[2] % m) * p1 + (h[3] % m) * p2 + (h[4] % m) * p3) % m

----
\* bloom.Bloom

\* bloom.New(m, k): m zero bytes; bits is the set of positions holding 1
BloomNew(m, k) == [m |-> m, k |-> k, bits |-> {}]

\* h.Reset(); h.Write([]byte{byte(i)}); h.Write([]byte(s)); h.Sum64()
Sum64(i, s) == FnvWrite(FnvOffset64, <<i>> \o s)

\* Sum64 of the strings the model hashes, computed once
Sum64OfKeys == [i \in 0..(BloomK - 1), s \in Keys \cup MemKeys |-> Sum64(i, s)]

\* Bloom.hashes: for i < k, FNV-1a of the byte i followed by the string
hashes(b, s) ==
    [i \in 1..b.k |-> IF <<i - 1, s>> \in DOMAIN Sum64OfKeys
                      THEN Sum64OfKeys[i - 1, s]
                      ELSE Sum64(i - 1, s)]

\* the positions idx % len(b.bits) Add sets and Contains tests
BloomPositions(b, s) == {ModLimbs(hashes(b, s)[i], b.m) : i \in 1..b.k}

\* An Add that clears what earlier Adds set.
BloomAddForgetful(b, s) == [b EXCEPT !.bits = BloomPositions(b, s)]

\* Bloom.Add: every position of s set to 1
BloomAdd(b, s) == [b EXCEPT !.bits = @ \cup BloomPositions(b, s)]

BloomContains(b, s) == BloomPositions(b, s) \subseteq b.bits

RECURSIVE BloomAddAll(_, _)
BloomAddAll(b, ss) ==
    IF ss = <<>> THEN b ELSE BloomAddAll(BloomAdd(b, Head(ss)), Tail(ss))

----
\* bloom.CountingBloom

\* the cap of a uint8 counter: "if cb.counters[pos] < 255"
CounterMax == 255

\* bloom.NewCounting(m, k): m counters at zero
NewCounting(m, k) == [m |-> m, k |-> k, counters |-> [pos \in 0..(m - 1) |-> 0]]

\* CountingBloom.hashes: the same derivation as Bloom.hashes
CountingHashes(cb, s) == hashes(cb, s)

\* the loop of CountingBloom.Add over the indexes from i on
RECURSIVE CountingAddLoop(_, _, _)
CountingAddLoop(cb, indexes, i) ==
    IF i > Len(indexes) THEN cb
    ELSE LET pos == ModLimbs(indexes[i], cb.m) IN
         CountingAddLoop(IF cb.counters[pos] < CounterMax
                         THEN [cb EXCEPT !.counters[pos] = @ + 1]
                         ELSE cb,
                         indexes, i + 1)

\* An Add without the test against 255: the uint8 counter wraps to 0.
RECURSIVE CountingAddWrapLoop(_, _, _)
CountingAddWrapLoop(cb, indexes, i) ==
    IF i > Len(indexes) THEN cb
    ELSE LET pos == ModLimbs(indexes[i], cb.m) IN
         CountingAddWrapLoop([cb EXCEPT !.counters[pos] = (@ + 1) % (CounterMax + 1)],
                             indexes, i + 1)

CountingAddWrapping(cb, s) == CountingAddWrapLoop(cb, CountingHashes(cb, s), 1)

\* CountingBloom.Add
CountingAdd(cb, s) == CountingAddLoop(cb, CountingHashes(cb, s), 1)

\* the loop of CountingBloom.Remove over the indexes from i on
RECURSIVE CountingRemoveLoop(_, _, _)
CountingRemoveLoop(cb, indexes, i) ==
    IF i > Len(indexes) THEN cb
    ELSE LET pos == ModLimbs(indexes[i], cb.m) IN
         CountingRemoveLoop(IF cb.counters[pos] > 0
                            THEN [cb EXCEPT !.counters[pos] = @ - 1]
                            ELSE cb,
                            indexes, i + 1)

\* A Remove that leaves the counters as they are.
CountingRemoveNothing(cb, s) == cb

\* CountingBloom.Remove
CountingRemove(cb, s) == CountingRemoveLoop(cb, CountingHashes(cb, s), 1)

\* the positions of s in the counter array
CountingPositions(cb, s) ==
    {ModLimbs(CountingHashes(cb, s)[i], cb.m) : i \in 1..cb.k}

\* CountingBloom.Contains: every counter of s is nonzero
CountingContains(cb, s) ==
    \A pos \in CountingPositions(cb, s) : cb.counters[pos] # 0

----
\* memtable.Memtable

EmptyMap == [k \in {} |-> <<>>]

\* m[key] = value on a Go map
MapPut(m, key, value) ==
    [k \in DOMAIN m \cup {key} |-> IF k = key THEN value ELSE m[k]]

\* memtable.New
MemtableNew(threshold) == [Data |-> EmptyMap, FlushThreshold |-> threshold]

\* Memtable.Put
MemtablePut(m, key, value) == [m EXCEPT !.Data = MapPut(@, key, value)]

\* Memtable.Get: (value, ok)
MemtableGet(m, key) ==
    IF key \in DOMAIN m.Data
    THEN [value |-> m.Data[key], ok |-> TRUE]
    ELSE [value |-> <<>>, ok |-> FALSE]

\* An IsFull that is off by one.
IsFullAboveThreshold(m) == Cardinality(DOMAIN m.Data) > m.FlushThreshold

\* Memtable.IsFull
IsFull(m) == Cardinality(DOMAIN m.Data) >= m.FlushThreshold

\* The entries of a map as KV records sorted by sort.Slice on Key: the keys
\* of a map are distinct, so the sorted order is unique.
RECURSIVE SortedKVs(_)
SortedKVs(data) ==
    IF DOMAIN data = {} THEN <<>>
    ELSE LET least == CHOOSE k \in DOMAIN data :
                          \A j \in DOMAIN data \ {k} : StrLess(k, j)
         IN <<[Key |-> least, Value |-> data[least]]>>
            \o SortedKVs([k \in DOMAIN data \ {least} |-> data[k]])

\* A Flush that returns the contents and forgets to reset the map.
MemtableFlushKeepsData(m) == [kvs |-> SortedKVs(m.Data), m |-> m]

\* A Flush that returns the contents in descending key order.
MemtableFlushDescending(m) ==
    LET s == SortedKVs(m.Data)
    IN [kvs |-> [i \in 1..Len(s) |-> s[Len(s) + 1 - i]],
        m |-> [m EXCEPT !.Data = EmptyMap]]

\* Memtable.Flush: the sorted contents, and the memtable reset
MemtableFlush(m) ==
    [kvs |-> SortedKVs(m.Data), m |-> [m EXCEPT !.Data = EmptyMap]]

----
\* sstable.SSTable

\* sstable.New: os.Create truncates or creates the file, the lines are
\* written in order, and the filter holds every key
SSTableNew(path, kvs, dsk, time) ==
    LET file == [lines |-> [i \in 1..Len(kvs) |-> FormatLine(kvs[i])],
                 mtime |-> time]
        bl == BloomAddAll(BloomNew(Len(kvs) * 8 + 1, BloomK),
                          [i \in 1..Len(kvs) |-> kvs[i].Key])
    IN [tbl |-> [Path |-> path, Bloom |-> bl],
        disk |-> [p \in DOMAIN dsk \cup {path} |->
                     IF p = path THEN file ELSE dsk[p]]]

\* sstable.Load: count the lines, then add parts[0] of every line
Load(path, dsk) ==
    LET lines == dsk[path].lines
        bl == BloomAddAll(BloomNew(Len(lines) * 8 + 1, BloomK),
                          [i \in 1..Len(lines) |-> SplitN2(lines[i])[1]])
    IN [Path |-> path, Bloom |-> bl]

\* sstable.Load: whether the call returns a non-nil error, which is that of
\* os.Open (no line makes Load fail)
LoadErr(path, dsk) == path \notin DOMAIN dsk

\* the scan of SSTable.Get: the first line with two parts whose key matches
RECURSIVE ScanLines(_, _, _)
ScanLines(lines, i, key) ==
    IF i > Len(lines) THEN [value |-> <<>>, found |-> FALSE, err |-> FALSE]
    ELSE LET parts == SplitN2(lines[i]) IN
         IF Len(parts) = 2 /\ parts[1] = key
         THEN [value |-> parts[2], found |-> TRUE, err |-> FALSE]
         ELSE ScanLines(lines, i + 1, key)

\* SSTable.Get: (value, found, err); err is the failure of os.Open
SSTableGet(s, dsk, key) ==
    IF ~BloomContains(s.Bloom, key)
    THEN [value |-> <<>>, found |-> FALSE, err |-> FALSE]
    ELSE IF s.Path \notin DOMAIN dsk
    THEN [value |-> <<>>, found |-> FALSE, err |-> TRUE]
    ELSE ScanLines(dsk[s.Path].lines, 1, key)

\* os.Stat(path).Size(): every line and its terminator
RECURSIVE LinesSize(_)
LinesSize(lines) ==
    IF lines = <<>> THEN 0 ELSE Len(Head(lines)) + 1 + LinesSize(Tail(lines))

\* getTableSize of the strategies, getTotalSize of the tree: 0 when Stat fails
getTableSize(table, dsk) ==
    IF table.Path \in DOMAIN dsk THEN LinesSize(dsk[table.Path].lines) ELSE 0

----
\* compaction.SizeTieredStrategy, with the fields NewSizeTieredStrategy sets

MinTables == 4
SizeRatio == 2
MaxTableSize == 1024 * 1024

\* One insertion step of sort.Slice ordering tables by size: the table moves
\* left while it is strictly smaller than its predecessor. (sort.Slice sorts
\* a slice of at most 6 elements by plain insertion in every Go release.)
RECURSIVE InsertBySize(_, _, _)
InsertBySize(sorted, table, dsk) ==
    IF sorted = <<>> THEN <<table>>
    ELSE LET last == sorted[Len(sorted)] IN
         IF getTableSize(table, dsk) < getTableSize(last, dsk)
         THEN InsertBySize(SubSeq(sorted, 1, Len(sorted) - 1), table, dsk) \o <<last>>
         ELSE sorted \o <<table>>

RECURSIVE SortBySize(_, _)
SortBySize(tables, dsk) ==
    IF tables = <<>> THEN <<>>
    ELSE InsertBySize(SortBySize(SubSeq(tables, 1, Len(tables) - 1), dsk),
                      tables[Len(tables)], dsk)

\* the loop of groupBySize over the sorted tables
RECURSIVE GroupLoop(_, _, _, _, _)
GroupLoop(sorted, tiers, currentTier, lastSize, dsk) ==
    IF sorted = <<>>
    THEN IF Len(currentTier) > 0 THEN Append(tiers, currentTier) ELSE tiers
    ELSE LET table == Head(sorted)
             size == getTableSize(table, dsk)
         IN IF lastSize = 0 \/ size <= SizeRatio * lastSize
            THEN GroupLoop(Tail(sorted), tiers, Append(currentTier, table), size, dsk)
            ELSE GroupLoop(Tail(sorted),
                           IF Len(currentTier) > 0 THEN Append(tiers, currentTier) ELSE tiers,
                           <<table>>, size, dsk)

\* SizeTieredStrategy.groupBySize
groupBySize(tables, dsk) == GroupLoop(SortBySize(tables, dsk), <<>>, <<>>, 0, dsk)

\* SizeTieredStrategy.ShouldCompact
SizeTieredShouldCompact(tables, dsk) ==
    IF Len(tables) < MinTables THEN FALSE
    ELSE LET tiers == groupBySize(tables, dsk) IN
         \/ \E i \in 1..Len(tiers) : Len(tiers[i]) >= MinTables
         \/ \E i \in 1..Len(tables) : getTableSize(tables[i], dsk) > MaxTableSize

\* SizeTieredStrategy.SelectTables: the first tier of the largest count
RECURSIVE BestTier(_, _, _)
BestTier(tiers, bestTier, maxCount) ==
    IF tiers = <<>> THEN bestTier
    ELSE IF Len(Head(tiers)) > maxCount
    THEN BestTier(Tail(tiers), Head(tiers), Len(Head(tiers)))
    ELSE BestTier(Tail(tiers), bestTier, maxCount)

SizeTieredSelectTables(tables, dsk) == BestTier(groupBySize(tables, dsk), <<>>, 0)

----
\* compaction.LeveledStrategy, with the fields NewLeveledStrategy sets

MaxLevel == 7
LevelSizes == <<10 * 1024, 100 * 1024, 1024 * 1024>>
LevelRatio == 10
Level0Tables == 4

\* strings.Split(s, "-")
RECURSIVE SplitDash(_, _)
SplitDash(s, part) ==
    IF s = <<>> THEN <<part>>
    ELSE IF Head(s) = 45 THEN <<part>> \o SplitDash(Tail(s), <<>>)
    ELSE SplitDash(Tail(s), Append(part, Head(s)))

\* fmt.Sscanf(s, "%d", &level) for unsigned decimal text: the leading digits,
\* and 0 when there are none
RECURSIVE ScanDigits(_, _)
ScanDigits(s, acc) ==
    IF s = <<>> \/ Head(s) < 48 \/ Head(s) > 57 THEN acc
    ELSE ScanDigits(Tail(s), acc * 10 + (Head(s) - 48))

\* the first part "L<text>" of the file name gives the level
RECURSIVE LevelOfParts(_)
LevelOfParts(parts) ==
    IF parts = <<>> THEN 0
    ELSE IF Len(Head(parts)) > 1 /\ Head(Head(parts)) = 76
    THEN ScanDigits(Tail(Head(parts)), 0)
    ELSE LevelOfParts(Tail(parts))

\* LeveledStrategy.getTableLevel; strings.Contains(filename, "-L") holds
\* exactly when some part after the first starts with "L"
getTableLevel(table) ==
    LET parts == SplitDash(table.Path, <<>>) IN
    IF \E i \in 2..Len(parts) : parts[i] # <<>> /\ Head(parts[i]) = 76
    THEN LevelOfParts(parts)
    ELSE 0

\* levels[level] of groupByLevel: the tables of a level, in list order
LevelTables(tables, level) ==
    SelectSeq(tables, LAMBDA t : getTableLevel(t) = level)

RECURSIVE TotalSize(_, _)
TotalSize(tables, dsk) ==
    IF tables = <<>> THEN 0
    ELSE getTableSize(Head(tables), dsk) + TotalSize(Tail(tables), dsk)

\* LeveledStrategy.getLevelMaxSize
RECURSIVE GrowSize(_, _, _)
GrowSize(baseSize, i, level) ==
    IF i > level THEN baseSize ELSE GrowSize(baseSize * LevelRatio, i + 1, level)

getLevelMaxSize(level) ==
    IF level < Len(LevelSizes) THEN LevelSizes[level + 1]
    ELSE GrowSize(LevelSizes[Len(LevelSizes)], Len(LevelSizes), level)

\* LeveledStrategy.ShouldCompact: over the levels that hold a table
LeveledShouldCompact(tables, dsk) ==
    \E level \in {getTableLevel(tables[i]) : i \in 1..Len(tables)} :
        IF level = 0
        THEN Len(LevelTables(tables, 0)) >= Level0Tables
        ELSE TotalSize(LevelTables(tables, level), dsk) > getLevelMaxSize(level)

\* LeveledStrategy.SelectTables: levels 0..MaxLevel in order
RECURSIVE LeveledSelectFrom(_, _, _)
LeveledSelectFrom(level, tables, dsk) ==
    IF level > MaxLevel THEN <<>>
    ELSE LET levelTables == LevelTables(tables, level) IN
         IF Len(levelTables) = 0 THEN LeveledSelectFrom(level + 1, tables, dsk)
         ELSE IF level = 0 /\ Len(levelTables) >= Level0Tables THEN levelTables
         ELSE IF TotalSize(levelTables, dsk) > getLevelMaxSize(level) THEN levelTables
         ELSE LeveledSelectFrom(level + 1, tables, dsk)

LeveledSelectTables(tables, dsk) == LeveledSelectFrom(0, tables, dsk)

----
\* compaction.TimeBasedStrategy, with the fields NewTimeBasedStrategy sets

MaxAge == 3600
TimeMinTables == 3

\* TimeBasedStrategy.isOld: the modification time itself is compared to MaxAge
isOld(table, dsk) ==
    IF table.Path \in DOMAIN dsk THEN dsk[table.Path].mtime > MaxAge ELSE FALSE

\* TimeBasedStrategy.ShouldCompact
TimeBasedShouldCompact(tables, dsk) ==
    IF Len(tables) < TimeMinTables THEN FALSE
    ELSE Len(SelectSeq(tables, LAMBDA t : isOld(t, dsk))) >= TimeMinTables

\* TimeBasedStrategy.SelectTables
TimeBasedSelectTables(tables, dsk) == SelectSeq(tables, LAMBDA t : isOld(t, dsk))

----
\* compaction.Strategy: dispatch on the configured strategy's Name()

Strategies == {"Size-Tiered", "Leveled", "Time-Based"}

ShouldCompact(strat, tables, dsk) ==
    CASE strat = "Size-Tiered" -> SizeTieredShouldCompact(tables, dsk)
      [] strat = "Leveled" -> LeveledShouldCompact(tables, dsk)
      [] strat = "Time-Based" -> TimeBasedShouldCompact(tables, dsk)

SelectTables(strat, tables, dsk) ==
    CASE strat = "Size-Tiered" -> SizeTieredSelectTables(tables, dsk)
      [] strat = "Leveled" -> LeveledSelectTables(tables, dsk)
      [] strat = "Time-Based" -> TimeBasedSelectTables(tables, dsk)

----
\* lsmtree.LSMTree. An engine value e holds the fields of the LSMTree and the
\* directory it works on; an operation maps e to the engine after the call.

NoStats == <<>>
NewStats == <<[TotalWrites |-> 0, TotalReads |-> 0, MemtableHits |-> 0,
               SSTableHits |-> 0, BloomFilterSaves |-> 0,
               CompactionCount |-> 0, TotalFlushes |-> 0]>>

\* t.stats.<field>++ under "if t.stats != nil"
Bump(st, field) ==
    IF st = NoStats THEN st ELSE <<[st[1] EXCEPT ![field] = @ + 1]>>

Engine == [Mem |-> Mem, Tables |-> Tables, nextID |-> nextID,
           strategy |-> strategy, stats |-> stats, disk |-> disk]

\* filepath.Ext(path) == ".sst"
HasSstExt(path) ==
    /\ Len(path) >= Len(PathSuffix)
    /\ SubSeq(path, Len(path) - Len(PathSuffix) + 1, Len(path)) = PathSuffix

\* the .sst files of the directory in the order sort.Slice on Path leaves
RECURSIVE SortByPath(_)
SortByPath(paths) ==
    IF paths = {} THEN <<>>
    ELSE LET least == CHOOSE p \in paths : \A q \in paths \ {p} : StrLess(p, q)
         IN <<least>> \o SortByPath(paths \ {least})

\* newLSMTree: a fresh memtable, every .sst file loaded, sorted by path,
\* and nextID set to the number of tables
newLSMTree(dsk, threshold, strat, enableStats) ==
    LET paths == SortByPath({p \in DOMAIN dsk : HasSstExt(p)})
        tables == [i \in 1..Len(paths) |-> Load(paths[i], dsk)]
    IN [Mem |-> MemtableNew(threshold), Tables |-> tables,
        nextID |-> Len(tables), strategy |-> strat,
        stats |-> IF enableStats THEN NewStats ELSE NoStats, disk |-> dsk]

\* A flush that writes the records of the memtable in descending key order.
flushDescending(e, time) ==
    LET fl == MemtableFlushDescending(e.Mem)
        r == SSTableNew(PathOf(e.nextID), fl.kvs, e.disk, time)
    IN [e EXCEPT !.Mem = fl.m, !.Tables = Append(@, r.tbl),
                 !.nextID = @ + 1, !.disk = r.disk]

\* LSMTree.flush
flush(e, time) ==
    LET fl == MemtableFlush(e.Mem)
        r == SSTableNew(PathOf(e.nextID), fl.kvs, e.disk, time)
    IN [e EXCEPT !.Mem = fl.m, !.Tables = Append(@, r.tbl),
                 !.nextID = @ + 1, !.disk = r.disk]

\* merged[parts[0]] = parts[1] for every two-part line of a file
RECURSIVE MergeLines(_, _)
MergeLines(merged, lines) ==
    IF lines = <<>> THEN merged
    ELSE LET parts == SplitN2(Head(lines)) IN
         MergeLines(IF Len(parts) = 2 THEN MapPut(merged, parts[1], parts[2])
                    ELSE merged,
                    Tail(lines))

\* the merge loop of Compact and CompactWithStrategy: the tables in the
\* order given, a later table overriding an earlier one; err when a file
\* cannot be opened
RECURSIVE MergeTables(_, _, _)
MergeTables(merged, tables, dsk) ==
    IF tables = <<>> THEN [merged |-> merged, err |-> FALSE]
    ELSE IF Head(tables).Path \notin DOMAIN dsk
    THEN [merged |-> merged, err |-> TRUE]
    ELSE MergeTables(MergeLines(merged, dsk[Head(tables).Path].lines),
                     Tail(tables), dsk)

\* os.Remove of every path of the tables; a failing Remove is ignored
RemoveFiles(dsk, tables) ==
    LET gone == {tables[i].Path : i \in 1..Len(tables)} IN
    [p \in DOMAIN dsk \ gone |-> dsk[p]]

\* A Compact that counts a compaction before it looks at the number of runs.
CompactCountsFirst(e, time) ==
    LET e1 == [e EXCEPT !.stats = Bump(@, "CompactionCount")]
        m == MergeTables(EmptyMap, e1.Tables, e1.disk)
    IN IF Len(e.Tables) < 2 \/ m.err THEN e1
       ELSE LET r == SSTableNew(PathOf(e1.nextID), SortedKVs(m.merged),
                                e1.disk, time)
            IN [e1 EXCEPT !.disk = RemoveFiles(r.disk, e1.Tables),
                          !.Tables = <<r.tbl>>,
                          !.nextID = @ + 1]

\* LSMTree.Compact
Compact(e, time) ==
    IF Len(e.Tables) < 2 THEN e
    ELSE LET e1 == [e EXCEPT !.stats = Bump(@, "CompactionCount")]
             m == MergeTables(EmptyMap, e1.Tables, e1.disk)
         IN IF m.err THEN e1
            ELSE LET r == SSTableNew(PathOf(e1.nextID), SortedKVs(m.merged),
                                     e1.disk, time)
                 IN [e1 EXCEPT !.disk = RemoveFiles(r.disk, e1.Tables),
                               !.Tables = <<r.tbl>>,
                               !.nextID = @ + 1]

\* LSMTree.CompactWithStrategy
CompactWithStrategy(e, time) ==
    IF e.strategy = "nil" THEN Compact(e, time)
    ELSE IF ~ShouldCompact(e.strategy, e.Tables, e.disk) THEN e
    ELSE LET e1 == [e EXCEPT !.stats = Bump(@, "CompactionCount")]
             selectedTables == SelectTables(e1.strategy, e1.Tables, e1.disk)
         IN IF Len(selectedTables) < 2 THEN e1
            ELSE LET m == MergeTables(EmptyMap, selectedTables, e1.disk) IN
                 IF m.err THEN e1
                 ELSE LET r == SSTableNew(PathOf(e1.nextID), SortedKVs(m.merged),
                                          e1.disk, time)
                          selectedPaths == {selectedTables[i].Path :
                                               i \in 1..Len(selectedTables)}
                          remainingTables ==
                              SelectSeq(e1.Tables, LAMBDA t : t.Path \notin selectedPaths)
                      IN [e1 EXCEPT !.disk = RemoveFiles(r.disk, selectedTables),
                                    !.Tables = Append(remainingTables, r.tbl),
                                    !.nextID = @ + 1]

\* the os.Remove calls of a compaction over the tables, in order: whether
\* some call fails, which it does when the file is not there (any more)
RemoveFails(dsk, tables) ==
    \E i \in 1..Len(tables) :
        \/ tables[i].Path \notin DOMAIN dsk
        \/ \E j \in 1..(i - 1) : tables[j].Path = tables[i].Path

\* LSMTree.Compact: whether the call returns a non-nil error (sstable.New
\* does not fail in the model, so the error is that of os.Open)
CompactErr(e) ==
    Len(e.Tables) >= 2 /\ MergeTables(EmptyMap, e.Tables, e.disk).err

\* LSMTree.Compact: whether one of its file operations fails
CompactFileOpFails(e, time) ==
    /\ Len(e.Tables) >= 2
    /\ LET m == MergeTables(EmptyMap, e.Tables, e.disk) IN
       \/ m.err
       \/ RemoveFails(SSTableNew(PathOf(e.nextID), SortedKVs(m.merged),
                                 e.disk, time).disk,
                      e.Tables)

\* LSMTree.CompactWithStrategy: whether the call returns a non-nil error
CompactWithStrategyErr(e) ==
    IF e.strategy = "nil" THEN CompactErr(e)
    ELSE /\ ShouldCompact(e.strategy, e.Tables, e.disk)
         /\ LET selectedTables == SelectTables(e.strategy, e.Tables, e.disk) IN
            /\ Len(selectedTables) >= 2
            /\ MergeTables(EmptyMap, selectedTables, e.disk).err

\* LSMTree.CompactWithStrategy: whether one of its file operations fails
CompactWithStrategyFileOpFails(e, time) ==
    IF e.strategy = "nil" THEN CompactFileOpFails(e, time)
    ELSE /\ ShouldCompact(e.strategy, e.Tables, e.disk)
         /\ LET selectedTables == SelectTables(e.strategy, e.Tables, e.disk)
                m == MergeTables(EmptyMap, selectedTables, e.disk)
            IN /\ Len(selectedTables) >= 2
               /\ \/ m.err
                  \/ RemoveFails(SSTableNew(PathOf(e.nextID), SortedKVs(m.merged),
                                            e.disk, time).disk,
                                 selectedTables)

\* LSMTree.Put up to the return of t.flush(): the write, and the flush of
\* a full memtable
PutFlush(e, key, value, time) ==
    LET e1 == [e EXCEPT !.stats = Bump(@, "TotalWrites"),
                        !.Mem = MemtablePut(@, key, value)]
    IN IF ~IsFull(e1.Mem) THEN e1
       ELSE flush([e1 EXCEPT !.stats = Bump(@, "TotalFlushes")], time)

\* whether this Put flushes
PutFlushes(e, key, value) == IsFull(MemtablePut(e.Mem, key, value))

\* whether this Put goes on to call CompactWithStrategy after its flush
PutCompacts(e, key, value, time) ==
    LET e2 == PutFlush(e, key, value, time) IN
    /\ PutFlushes(e, key, value)
    /\ e2.strategy # "nil"
    /\ ShouldCompact(e2.strategy, e2.Tables, e2.disk)

\* sstable.New returning an error: os.Create failed and no file is left, or
\* a write failed after os.Create and the file holds the first n lines
SSTableNewFails(path, kvs, dsk, time, created, n) ==
    IF ~created THEN dsk
    ELSE [p \in DOMAIN dsk \cup {path} |->
             IF p = path
             THEN [lines |-> [i \in 1..n |-> FormatLine(kvs[i])], mtime |-> time]
             ELSE dsk[p]]

\* LSMTree.flush when sstable.New returns an error: Mem.Flush() has run,
\* the run list and nextID are not reached
flushFails(e, time, created, n) ==
    LET fl == MemtableFlush(e.Mem) IN
    [e EXCEPT !.Mem = fl.m,
              !.disk = SSTableNewFails(PathOf(e.nextID), fl.kvs, @, time, created, n)]

\* LSMTree.Put of a full memtable whose flush fails: Put returns the error
PutFlushFails(e, key, value, time, created, n) ==
    LET e1 == [e EXCEPT !.stats = Bump(@, "TotalWrites"),
                        !.Mem = MemtablePut(@, key, value)]
    IN flushFails([e1 EXCEPT !.stats = Bump(@, "TotalFlushes")], time, created, n)

\* A Put that flushes a full memtable and never calls CompactWithStrategy
LSMPutWithoutCompaction(e, key, value, time) == PutFlush(e, key, value, time)

\* LSMTree.Put
LSMPut(e, key, value, time) ==
    LET e2 == PutFlush(e, key, value, time) IN
    IF PutCompacts(e, key, value, time) THEN CompactWithStrategy(e2, time) ELSE e2

\* the loop of LSMTree.Get over the tables, newest (last) first
RECURSIVE GetFromTables(_, _, _, _)
GetFromTables(tables, i, dsk, key) ==
    IF i < 1 THEN [value |-> <<>>, found |-> FALSE, err |-> FALSE]
    ELSE IF ~BloomContains(tables[i].Bloom, key)
    THEN GetFromTables(tables, i - 1, dsk, key)
    ELSE LET r == SSTableGet(tables[i], dsk, key) IN
         IF r.err \/ r.found THEN r
         ELSE GetFromTables(tables, i - 1, dsk, key)

\* A Get that scans the tables oldest first.
RECURSIVE GetFromTablesOldestFirst(_, _, _, _)
GetFromTablesOldestFirst(tables, i, dsk, key) ==
    IF i > Len(tables) THEN [value |-> <<>>, found |-> FALSE, err |-> FALSE]
    ELSE IF ~BloomContains(tables[i].Bloom, key)
    THEN GetFromTablesOldestFirst(tables, i + 1, dsk, key)
    ELSE LET r == SSTableGet(tables[i], dsk, key) IN
         IF r.err \/ r.found THEN r
         ELSE GetFromTablesOldestFirst(tables, i + 1, dsk, key)

LSMGetOldestFirst(e, key) ==
    LET hit == MemtableGet(e.Mem, key) IN
    IF hit.ok THEN [value |-> hit.value, found |-> TRUE, err |-> FALSE]
    ELSE GetFromTablesOldestFirst(e.Tables, 1, e.disk, key)

\* A Get that asks the tables before the memtable.
LSMGetTablesFirst(e, key) ==
    LET r == GetFromTables(e.Tables, Len(e.Tables), e.disk, key)
        hit == MemtableGet(e.Mem, key)
    IN IF r.err \/ r.found THEN r
       ELSE IF hit.ok THEN [value |-> hit.value, found |-> TRUE, err |-> FALSE]
       ELSE r

\* LSMTree.Get: (value, found, err)
LSMGet(e, key) ==
    LET hit == MemtableGet(e.Mem, key) IN
    IF hit.ok THEN [value |-> hit.value, found |-> TRUE, err |-> FALSE]
    ELSE GetFromTables(e.Tables, Len(e.Tables), e.disk, key)

\* what the loop of LSMTree.Get does to the statistics: a table whose filter
\* excludes the key counts as a BloomFilterSaves, the table that holds the key
\* as an SSTableHits; an error of a table's Get ends the loop
RECURSIVE GetTally(_, _, _, _, _)
GetTally(st, tables, i, dsk, key) ==
    IF i < 1 THEN st
    ELSE IF ~BloomContains(tables[i].Bloom, key)
    THEN GetTally(Bump(st, "BloomFilterSaves"), tables, i - 1, dsk, key)
    ELSE LET r == SSTableGet(tables[i], dsk, key) IN
         IF r.err THEN st
         ELSE IF r.found THEN Bump(st, "SSTableHits")
         ELSE GetTally(st, tables, i - 1, dsk, key)

\* A Get that forgets to count the read.
LSMGetStatsUncounted(e, key) ==
    [e EXCEPT !.stats =
        IF MemtableGet(e.Mem, key).ok THEN Bump(@, "MemtableHits")
        ELSE GetTally(@, e.Tables, Len(e.Tables), e.disk, key)]

\* LSMTree.Get: the engine after the call (only the statistics change)
LSMGetStats(e, key) ==
    [e EXCEPT !.stats =
        IF MemtableGet(e.Mem, key).ok
        THEN Bump(Bump(@, "TotalReads"), "MemtableHits")
        ELSE GetTally(Bump(@, "TotalReads"), e.Tables, Len(e.Tables), e.disk, key)]

\* A SetStrategy that also switches the statistics on.
SetStrategyWithStats(e, strat) ==
    [e EXCEPT !.strategy = strat,
              !.stats = IF @ = NoStats THEN NewStats ELSE @]

\* LSMTree.SetStrategy
SetStrategy(e, strat) == [e EXCEPT !.strategy = strat]

\* A GetCompactionInfo that always answers as if no policy were set.
GetCompactionInfoBasicOnly(e) ==
    [Strategy |-> "Basic",
     ShouldCompact |-> Len(e.Tables) >= 2,
     TableCount |-> Len(e.Tables),
     TotalSize |-> TotalSize(e.Tables, e.disk),
     SelectedCount |-> Len(e.Tables)]

\* LSMTree.GetCompactionInfo: the CompactionInfo returned; Name() of a
\* policy is the name it is configured under
GetCompactionInfo(e) ==
    IF e.strategy = "nil"
    THEN [Strategy |-> "Basic",
          ShouldCompact |-> Len(e.Tables) >= 2,
          TableCount |-> Len(e.Tables),
          TotalSize |-> TotalSize(e.Tables, e.disk),
          SelectedCount |-> Len(e.Tables)]
    ELSE [Strategy |-> e.strategy,
          ShouldCompact |-> ShouldCompact(e.strategy, e.Tables, e.disk),
          TableCount |-> Len(e.Tables),
          TotalSize |-> TotalSize(e.Tables, e.disk),
          SelectedCount |-> Len(SelectTables(e.strategy, e.Tables, e.disk))]

----
\* btree.BTree. A node is the record of its fields, its children nested in
\* it; no two nodes share a slice, so an operation maps a node to the node
\* after the call. Indexes are 1-based: index i here is i - 1 in the code.

\* append(s[:i], append([]T{x}, s[i:]...)...): x becomes element i
InsertAt(s, i, x) == SubSeq(s, 1, i - 1) \o <<x>> \o SubSeq(s, i, Len(s))

\* append(s[:i], s[i+1:]...): element i removed
RemoveAt(s, i) == SubSeq(s, 1, i - 1) \o SubSeq(s, i + 1, Len(s))

\* &Node{Leaf: leaf}
NewNode(leaf) == [Leaf |-> leaf, Keys |-> <<>>, Values |-> <<>>, Children |-> <<>>]

\* btree.New(order), for order >= 2
BTreeNew(order) == [Order |-> order, Root |-> NewNode(TRUE)]

\* for i < len(keys) && key > keys[i] { i++ }
RECURSIVE ScanGreater(_, _, _)
ScanGreater(keys, key, i) ==
    IF i <= Len(keys) /\ StrLess(keys[i], key)
    THEN ScanGreater(keys, key, i + 1) ELSE i

\* for i >= 0 && key < keys[i] { i-- }
RECURSIVE ScanLess(_, _, _)
ScanLess(keys, key, i) ==
    IF i >= 1 /\ StrLess(key, keys[i]) THEN ScanLess(keys, key, i - 1) ELSE i

\* the loop of BTree.Search from node n down: (value, ok)
RECURSIVE SearchNode(_, _)
SearchNode(n, key) ==
    LET i == ScanGreater(n.Keys, key, 1) IN
    IF i <= Len(n.Keys) /\ key = n.Keys[i]
    THEN [value |-> n.Values[i], ok |-> TRUE]
    ELSE IF n.Leaf THEN [value |-> <<>>, ok |-> FALSE]
    ELSE SearchNode(n.Children[i], key)

\* BTree.Search
Search(t, key) == SearchNode(t.Root, key)

\* splitChild(x, i, t): the full child i of x gives its middle key to x and
\* its upper half to a new right sibling
splitChild(x, i, t) ==
    LET y == x.Children[i]
        z == [Leaf |-> y.Leaf,
              Keys |-> SubSeq(y.Keys, t + 1, Len(y.Keys)),
              Values |-> SubSeq(y.Values, t + 1, Len(y.Values)),
              Children |-> IF y.Leaf THEN <<>>
                           ELSE SubSeq(y.Children, t + 1, Len(y.Children))]
        y2 == [Leaf |-> y.Leaf,
               Keys |-> SubSeq(y.Keys, 1, t - 1),
               Values |-> SubSeq(y.Values, 1, t - 1),
               Children |-> IF y.Leaf THEN y.Children
                            ELSE SubSeq(y.Children, 1, t)]
    IN [Leaf |-> x.Leaf,
        Keys |-> InsertAt(x.Keys, i, y.Keys[t]),
        Values |-> InsertAt(x.Values, i, y.Values[t]),
        Children |-> InsertAt([x.Children EXCEPT ![i] = y2], i + 1, z)]

\* insertNonFull(n, key, value, t)
RECURSIVE insertNonFull(_, _, _, _)
insertNonFull(n, key, value, t) ==
    LET i == ScanLess(n.Keys, key, Len(n.Keys)) IN
    IF n.Leaf
    THEN [n EXCEPT !.Keys = InsertAt(@, i + 1, key),
                   !.Values = InsertAt(@, i + 1, value)]
    ELSE LET c == i + 1
             full == Len(n.Children[c].Keys) = 2 * t - 1
             n2 == IF full THEN splitChild(n, c, t) ELSE n
             c2 == IF full /\ StrLess(n2.Keys[c], key) THEN c + 1 ELSE c
         IN [n2 EXCEPT !.Children[c2] = insertNonFull(@, key, value, t)]

\* An Insert that descends into the root without splitting it when full
InsertWithoutRootSplit(t, key, value) ==
    [t EXCEPT !.Root = insertNonFull(t.Root, key, value, t.Order)]

\* BTree.Insert: a full root is split under a new root first
Insert(t, key, value) ==
    LET r == t.Root IN
    IF Len(r.Keys) = 2 * t.Order - 1
    THEN LET s == [NewNode(FALSE) EXCEPT !.Children = <<r>>] IN
         [t EXCEPT !.Root = insertNonFull(splitChild(s, 1, t.Order), key, value, t.Order)]
    ELSE [t EXCEPT !.Root = insertNonFull(r, key, value, t.Order)]

\* mergeChildren(x, i, t): child i takes key i of x and all of child i + 1
mergeChildren(x, i, t) ==
    LET y == x.Children[i]
        z == x.Children[i + 1]
        y2 == [Leaf |-> y.Leaf,
               Keys |-> (y.Keys \o <<x.Keys[i]>>) \o z.Keys,
               Values |-> (y.Values \o <<x.Values[i]>>) \o z.Values,
               Children |-> IF y.Leaf THEN y.Children
                            ELSE y.Children \o z.Children]
    IN [Leaf |-> x.Leaf,
        Keys |-> RemoveAt(x.Keys, i),
        Values |-> RemoveAt(x.Values, i),
        Children |-> RemoveAt([x.Children EXCEPT ![i] = y2], i + 1)]

\* borrowFromPrev(x, i): child i takes key i - 1 of x, which takes the last
\* key of child i - 1
borrowFromPrev(x, i) ==
    LET child == x.Children[i]
        sibling == x.Children[i - 1]
        child2 == [Leaf |-> child.Leaf,
                   Keys |-> <<x.Keys[i - 1]>> \o child.Keys,
                   Values |-> <<x.Values[i - 1]>> \o child.Values,
                   Children |-> IF child.Leaf THEN child.Children
                                ELSE <<sibling.Children[Len(sibling.Children)]>>
                                     \o child.Children]
        sibling2 == [Leaf |-> sibling.Leaf,
                     Keys |-> SubSeq(sibling.Keys, 1, Len(sibling.Keys) - 1),
                     Values |-> SubSeq(sibling.Values, 1, Len(sibling.Values) - 1),
                     Children |-> IF child.Leaf THEN sibling.Children
                                  ELSE SubSeq(sibling.Children, 1,
                                              Len(sibling.Children) - 1)]
    IN [x EXCEPT !.Keys[i - 1] = sibling.Keys[Len(sibling.Keys)],
                 !.Values[i - 1] = sibling.Values[Len(sibling.Values)],
                 !.Children[i] = child2,
                 !.Children[i - 1] = sibling2]

\* borrowFromNext(x, i): child i takes key i of x, which takes the first
\* key of child i + 1
borrowFromNext(x, i) ==
    LET child == x.Children[i]
        sibling == x.Children[i + 1]
        child2 == [Leaf |-> child.Leaf,
                   Keys |-> Append(child.Keys, x.Keys[i]),
                   Values |-> Append(child.Values, x.Values[i]),
                   Children |-> IF child.Leaf THEN child.Children
                                ELSE Append(child.Children, sibling.Children[1])]
        sibling2 == [Leaf |-> sibling.Leaf,
                     Keys |-> Tail(sibling.Keys),
                     Values |-> Tail(sibling.Values),
                     Children |-> IF child.Leaf THEN sibling.Children
                                  ELSE Tail(sibling.Children)]
    IN [x EXCEPT !.Keys[i] = sibling.Keys[1],
                 !.Values[i] = sibling.Values[1],
                 !.Children[i] = child2,
                 !.Children[i + 1] = sibling2]

\* for !pred.Leaf { pred = pred.Children[len(pred.Children)-1] }
RECURSIVE RightmostLeaf(_)
RightmostLeaf(n) ==
    IF n.Leaf THEN n ELSE RightmostLeaf(n.Children[Len(n.Children)])

\* for !succ.Leaf { succ = succ.Children[0] }
RECURSIVE LeftmostLeaf(_)
LeftmostLeaf(n) == IF n.Leaf THEN n ELSE LeftmostLeaf(n.Children[1])

\* the refill of removeFromNode: child idx, short of t keys, borrows from a
\* sibling that can spare a key or is merged with a sibling
Refill(n, idx, t) ==
    IF Len(n.Children[idx].Keys) >= t THEN n
    ELSE IF idx # 1 /\ Len(n.Children[idx - 1].Keys) >= t
    THEN borrowFromPrev(n, idx)
    ELSE IF idx # Len(n.Keys) + 1 /\ Len(n.Children[idx + 1].Keys) >= t
    THEN borrowFromNext(n, idx)
    ELSE IF idx # Len(n.Keys) + 1 THEN mergeChildren(n, idx, t)
    ELSE mergeChildren(n, idx - 1, t)

\* removeFromNode(n, key, t)
RECURSIVE removeFromNode(_, _, _)
removeFromNode(n, key, t) ==
    LET idx == ScanGreater(n.Keys, key, 1) IN
    IF idx <= Len(n.Keys) /\ n.Keys[idx] = key
    THEN IF n.Leaf
         THEN [n EXCEPT !.Keys = RemoveAt(@, idx), !.Values = RemoveAt(@, idx)]
         ELSE IF Len(n.Children[idx].Keys) >= t
         THEN LET pred == RightmostLeaf(n.Children[idx])
                  pk == pred.Keys[Len(pred.Keys)]
                  pv == pred.Values[Len(pred.Values)]
              IN [n EXCEPT !.Children[idx] = removeFromNode(@, pk, t),
                           !.Keys[idx] = pk, !.Values[idx] = pv]
         ELSE IF Len(n.Children[idx + 1].Keys) >= t
         THEN LET succ == LeftmostLeaf(n.Children[idx + 1])
                  sk == succ.Keys[1]
                  sv == succ.Values[1]
              IN [n EXCEPT !.Children[idx + 1] = removeFromNode(@, sk, t),
                           !.Keys[idx] = sk, !.Values[idx] = sv]
         ELSE LET n2 == mergeChildren(n, idx, t) IN
              [n2 EXCEPT !.Children[idx] = removeFromNode(@, key, t)]
    ELSE IF n.Leaf THEN n
    ELSE LET flag == (idx = Len(n.Keys) + 1)
             n2 == Refill(n, idx, t)
             c == IF flag /\ idx > Len(n2.Keys) + 1 THEN idx - 1 ELSE idx
         IN [n2 EXCEPT !.Children[c] = removeFromNode(@, key, t)]

\* BTree.Delete: an emptied inner root gives way to its only child
Delete(t, key) ==
    LET root == removeFromNode(t.Root, key, t.Order) IN
    [t EXCEPT !.Root = IF Len(root.Keys) = 0 /\ ~root.Leaf
                       THEN root.Children[1] ELSE root]

----
\* The state machine: one engine instance at a time works on the directory.

\* the value a reader is entitled to after a flush of data
Overlay(data, old) ==
    [k \in DOMAIN data \cup DOMAIN old |-> IF k \in DOMAIN data THEN data[k] ELSE old[k]]

Install(e) ==
    /\ Mem' = e.Mem
    /\ Tables' = e.Tables
    /\ nextID' = e.nextID
    /\ strategy' = e.strategy
    /\ stats' = e.stats
    /\ disk' = e.disk

\* no filter, no B-tree and no counted call: the components outside the
\* LSMTree are not in use
OthersIdle ==
    /\ filter = <<>>
    /\ added = <<>>
    /\ tree = <<>>
    /\ calls = <<>>

\* New(dir, threshold) or NewWithStrategy(dir, threshold, strategy) on an
\* empty directory
InitWith(thresholds, strategies) ==
    /\ disk = EmptyMap
    /\ now = StartTime
    /\ \E threshold \in thresholds, strat \in strategies :
          LET e == newLSMTree(EmptyMap, threshold, strat, strat # "nil") IN
          /\ Mem = e.Mem
          /\ Tables = e.Tables
          /\ nextID = e.nextID
          /\ strategy = e.strategy
          /\ stats = e.stats
    /\ written = EmptyMap
    /\ flushed = EmptyMap
    /\ opens = 0
    /\ compacted = FALSE
    /\ lastOp = [name |-> "New", merged |-> FALSE]
    /\ OthersIdle

Init == InitWith(1..MaxThreshold, Strategies \cup {"nil"})

\* t.Put(key, value)
PutCall(key, value, maxID) ==
    /\ nextID < maxID
    /\ (IF stats = NoStats THEN TRUE ELSE stats[1].TotalWrites < MaxWrites)
    /\ LET e == LSMPut(Engine, key, value, now)
           full == PutFlushes(Engine, key, value)
       IN /\ Install(e)
          /\ written' = MapPut(written, key, value)
          /\ flushed' = IF full THEN Overlay(MemtablePut(Mem, key, value).Data, flushed)
                        ELSE flushed
          /\ compacted' = (compacted \/ e.nextID = nextID + 2)
          /\ lastOp' = [name |-> "Put", merged |-> (e.nextID = nextID + 2)]
    /\ UNCHANGED <<now, opens>>
    /\ UNCHANGED others

\* t.Compact()
CompactCall(maxID) ==
    /\ nextID < maxID
    /\ LET e == Compact(Engine, now) IN
       /\ Install(e)
       /\ compacted' = (compacted \/ e.nextID # nextID)
       /\ lastOp' = [name |-> "Compact", merged |-> (e.nextID # nextID)]
    /\ UNCHANGED <<now, written, flushed, opens>>
    /\ UNCHANGED others

\* t.CompactWithStrategy()
CompactWithStrategyCall(maxID) ==
    /\ nextID < maxID
    /\ LET e == CompactWithStrategy(Engine, now) IN
       /\ Install(e)
       /\ compacted' = (compacted \/ e.nextID # nextID)
       /\ lastOp' = [name |-> "CompactWithStrategy", merged |-> (e.nextID # nextID)]
    /\ UNCHANGED <<now, written, flushed, opens>>
    /\ UNCHANGED others

\* the instance is discarded and the directory opened again: what was only
\* in the memtable is gone
OpenCall(threshold, strat) ==
    /\ opens < MaxOpens
    /\ Install(newLSMTree(disk, threshold, strat, strat # "nil"))
    /\ written' = flushed
    /\ opens' = opens + 1
    /\ lastOp' = [name |-> "Open", merged |-> FALSE]
    /\ UNCHANGED <<now, flushed, compacted>>
    /\ UNCHANGED others

Next ==
    \/ \E key \in Keys, value \in Values : PutCall(key, value, MaxID)
    \/ CompactCall(MaxID)
    \/ CompactWithStrategyCall(MaxID)
    \/ \E threshold \in 1..MaxThreshold, strat \in Strategies \cup {"nil"} :
          OpenCall(threshold, strat)

Spec == Init /\ [][Next]_vars

\* The engine without a policy under Put, Compact and re-open, where written
\* holds what a reader is owed after a re-open: the last-written value of
\* every key whose latest write was not still in the memtable at that time.
InitDurable == InitWith(1..MaxThreshold, {"nil"})

\* the instance is discarded and the directory opened again
DurableOpenCall(threshold) ==
    /\ opens < MaxOpens
    /\ Install(newLSMTree(disk, threshold, "nil", FALSE))
    /\ written' = [k \in DOMAIN written \ DOMAIN Mem.Data |-> written[k]]
    /\ opens' = opens + 1
    /\ lastOp' = [name |-> "Open", merged |-> FALSE]
    /\ UNCHANGED <<now, flushed, compacted>>
    /\ UNCHANGED others

NextDurable ==
    \/ \E key \in Keys, value \in Values : PutCall(key, value, MaxID)
    \/ CompactCall(MaxID)
    \/ \E threshold \in 1..MaxThreshold : DurableOpenCall(threshold)

SpecDurable == InitDurable /\ [][NextDurable]_vars

\* The engine without a policy where building the run file of a flush may
\* fail: written holds the writes of the Puts that returned nil.
InitFlushFail == InitWith(1..MaxThreshold, {"nil"})

\* t.Put(key, value) returning the error of its flush
FailedPutCall(key, value, created, n) ==
    /\ nextID < MaxID
    /\ PutFlushes(Engine, key, value)
    /\ n < Len(MemtableFlush(MemtablePut(Mem, key, value)).kvs)
    /\ Install(PutFlushFails(Engine, key, value, now, created, n))
    /\ lastOp' = [name |-> "Put failed", merged |-> FALSE]
    /\ UNCHANGED <<now, written, flushed, opens, compacted>>
    /\ UNCHANGED others

NextFlushFail ==
    \/ \E key \in Keys, value \in Values : PutCall(key, value, MaxID)
    \/ \E key \in Keys, value \in Values, created \in BOOLEAN, n \in 0..MaxThreshold :
          FailedPutCall(key, value, created, n)

SpecFlushFail == InitFlushFail /\ [][NextFlushFail]_vars

\* One engine instance under the leveled policy on an empty directory:
\* every run it creates is named ss-<n>.sst and so is of level 0.
MaxLeveledID == 7

\* NewWithStrategy(dir, threshold, NewLeveledStrategy())
InitLeveledEngine == InitWith(1..MaxThreshold, {"Leveled"})

NextLeveledEngine ==
    \/ \E key \in Keys, value \in Values : PutCall(key, value, MaxLeveledID)
    \/ CompactCall(MaxLeveledID)
    \/ CompactWithStrategyCall(MaxLeveledID)

SpecLeveledEngine == InitLeveledEngine /\ [][NextLeveledEngine]_vars

\* The same engine on a directory that grows long: one key, threshold 1,
\* no strategy, so every Put flushes a run and no run is ever merged.
InitLong == InitWith({1}, {"nil"})

NextLong ==
    \/ \E value \in Values : PutCall(LongKey, value, MaxLongID)
    \/ OpenCall(1, "nil")

SpecLong == InitLong /\ [][NextLong]_vars

\* A memtable on its own: Put and Flush as a caller of the package issues
\* them. written holds what was put since the last flush.
InitMemtable ==
    /\ \E threshold \in 1..MaxMemThreshold : Mem = MemtableNew(threshold)
    /\ Tables = <<>>
    /\ nextID = 0
    /\ strategy = "nil"
    /\ stats = NoStats
    /\ disk = EmptyMap
    /\ now = StartTime
    /\ written = EmptyMap
    /\ flushed = EmptyMap
    /\ opens = 0
    /\ compacted = FALSE
    /\ lastOp = [name |-> "memtable.New", merged |-> FALSE]
    /\ OthersIdle

MemtablePutCall(key, value) ==
    /\ Mem' = MemtablePut(Mem, key, value)
    /\ written' = Overlay([k \in {key} |-> value], written)
    /\ lastOp' = [name |-> IF key \in DOMAIN Mem.Data THEN "Memtable.Put overwrite"
                            ELSE "Memtable.Put",
                   merged |-> FALSE]
    /\ UNCHANGED <<Tables, nextID, strategy, stats, disk, now, flushed, opens, compacted>>
    /\ UNCHANGED others

\* Memtable.Flush; flushed holds the records the call returned, and the name
\* of the step tells whether the Put just before it overwrote a key
MemtableFlushCall ==
    /\ Mem' = MemtableFlush(Mem).m
    /\ flushed' = MemtableFlush(Mem).kvs
    /\ written' = EmptyMap
    /\ lastOp' = [name |-> IF lastOp.name = "Memtable.Put overwrite"
                            THEN "Memtable.Flush after overwrite"
                            ELSE "Memtable.Flush",
                   merged |-> FALSE]
    /\ UNCHANGED <<Tables, nextID, strategy, stats, disk, now, opens, compacted>>
    /\ UNCHANGED others

NextMemtable ==
    \/ \E key \in MemKeys, value \in Values : MemtablePutCall(key, value)
    \/ MemtableFlushCall

SpecMemtable == InitMemtable /\ [][NextMemtable]_vars

\* One engine instance whose calls are counted: New or NewWithStrategy on
\* an empty directory, then Put, Get, Compact, CompactWithStrategy and
\* SetStrategy. calls.policy records whether it was opened with a policy.
InitStats ==
    /\ disk = EmptyMap
    /\ now = StartTime
    /\ \E threshold \in 1..MaxThreshold, strat \in Strategies \cup {"nil"} :
          LET e == newLSMTree(EmptyMap, threshold, strat, strat # "nil") IN
          /\ Mem = e.Mem
          /\ Tables = e.Tables
          /\ nextID = e.nextID
          /\ strategy = e.strategy
          /\ stats = e.stats
          /\ calls = [puts |-> 0, gets |-> 0, policy |-> strat # "nil"]
    /\ written = EmptyMap
    /\ flushed = EmptyMap
    /\ opens = 0
    /\ compacted = FALSE
    /\ lastOp = [name |-> "New", merged |-> FALSE]
    /\ filter = <<>>
    /\ added = <<>>
    /\ tree = <<>>

\* t.Put(key, value), counted
CountedPutCall(key, value) ==
    /\ calls.puts < MaxPuts
    /\ LET e == LSMPut(Engine, key, value, now)
           full == PutFlushes(Engine, key, value)
       IN /\ Install(e)
          /\ written' = MapPut(written, key, value)
          /\ flushed' = IF full THEN Overlay(MemtablePut(Mem, key, value).Data, flushed)
                        ELSE flushed
          /\ compacted' = (compacted \/ e.nextID = nextID + 2)
          /\ lastOp' = [name |-> "Put", merged |-> (e.nextID = nextID + 2)]
    /\ calls' = [calls EXCEPT !.puts = @ + 1]
    /\ UNCHANGED <<now, opens, filter, added, tree>>

\* t.Get(key), counted
CountedGetCall(key) ==
    /\ calls.gets < MaxGets
    /\ Install(LSMGetStats(Engine, key))
    /\ calls' = [calls EXCEPT !.gets = @ + 1]
    /\ lastOp' = [name |-> "Get", merged |-> FALSE]
    /\ UNCHANGED <<now, written, flushed, opens, compacted, filter, added, tree>>

\* t.SetStrategy(strat)
SetStrategyCall(strat) ==
    /\ strategy # strat
    /\ Install(SetStrategy(Engine, strat))
    /\ lastOp' = [name |-> "SetStrategy", merged |-> FALSE]
    /\ UNCHANGED <<now, written, flushed, opens, compacted>>
    /\ UNCHANGED others

NextStats ==
    \/ \E key \in Keys, value \in Values : CountedPutCall(key, value)
    \/ \E key \in Keys : CountedGetCall(key)
    \/ CompactCall(MaxPuts + 1)
    \/ CompactWithStrategyCall(MaxPuts + 1)
    \/ \E strat \in Strategies : SetStrategyCall(strat)

SpecStats == InitStats /\ [][NextStats]_vars

\* the LSMTree is not in use: the specifications of the other components
\* leave its variables alone
EngineIdle ==
    /\ Mem = MemtableNew(1)
    /\ Tables = <<>>
    /\ nextID = 0
    /\ strategy = "nil"
    /\ stats = NoStats
    /\ disk = EmptyMap
    /\ now = StartTime
    /\ written = EmptyMap
    /\ flushed = EmptyMap
    /\ opens = 0
    /\ compacted = FALSE

engineVars == <<Mem, Tables, nextID, strategy, stats, disk, now,
                written, flushed, opens, compacted>>

\* number of entries of the subtree of n
RECURSIVE CountEntries(_)
CountEntries(n) ==
    LET RECURSIVE Sum(_)
        Sum(i) == IF i > Len(n.Children) THEN 0
                  ELSE CountEntries(n.Children[i]) + Sum(i + 1)
    IN Len(n.Keys) + Sum(1)

\* A B-tree engine on its own: Open on a path that does not exist, then
\* Put, which is Insert, and Delete. written is the map a caller expects: a
\* Put sets its key, a Delete removes it.
BTreeOrders == {2, 3}
BTreeKeys == {<<97>>, <<98>>, <<99>>, <<100>>, <<101>>}

InitBTree ==
    /\ EngineIdle
    /\ \E order \in BTreeOrders : tree = BTreeNew(order)
    /\ filter = <<>>
    /\ added = <<>>
    /\ calls = <<>>
    /\ lastOp = [name |-> "btree.Open", merged |-> FALSE]

\* e.Put(key, value)
BTreePutCall(key, value) ==
    /\ CountEntries(tree.Root) < MaxEntries
    /\ tree' = Insert(tree, key, value)
    /\ written' = MapPut(written, key, value)
    /\ lastOp' = [name |-> "Engine.Put", merged |-> FALSE]
    /\ UNCHANGED <<Mem, Tables, nextID, strategy, stats, disk, now,
                   flushed, opens, compacted, filter, added, calls>>

\* e.Delete(key)
BTreeDeleteCall(key) ==
    /\ tree' = Delete(tree, key)
    /\ written' = [k \in DOMAIN written \ {key} |-> written[k]]
    /\ lastOp' = [name |-> "Engine.Delete", merged |-> FALSE]
    /\ UNCHANGED <<Mem, Tables, nextID, strategy, stats, disk, now,
                   flushed, opens, compacted, filter, added, calls>>

NextBTree ==
    \/ \E key \in BTreeKeys, value \in Values : BTreePutCall(key, value)
    \/ \E key \in BTreeKeys : BTreeDeleteCall(key)

SpecBTree == InitBTree /\ [][NextBTree]_vars

\* The B-tree at its smallest order and over more keys, so that it grows to
\* three levels and Delete merges and borrows between internal nodes.
MaxDeepEntries == 11
DeepKeys == {<<97>>, <<98>>, <<99>>}

InitBTreeDeep ==
    /\ EngineIdle
    /\ tree = BTreeNew(2)
    /\ filter = <<>>
    /\ added = <<>>
    /\ calls = <<>>
    /\ lastOp = [name |-> "btree.Open", merged |-> FALSE]

\* e.Put(key, value)
DeepPutCall(key) ==
    /\ CountEntries(tree.Root) < MaxDeepEntries
    /\ tree' = Insert(tree, key, <<49>>)
    /\ written' = MapPut(written, key, <<49>>)
    /\ lastOp' = [name |-> "Engine.Put", merged |-> FALSE]
    /\ UNCHANGED <<Mem, Tables, nextID, strategy, stats, disk, now,
                   flushed, opens, compacted, filter, added, calls>>

NextBTreeDeep ==
    \/ \E key \in DeepKeys : DeepPutCall(key)
    \/ \E key \in DeepKeys : BTreeDeleteCall(key)

SpecBTreeDeep == InitBTreeDeep /\ [][NextBTreeDeep]_vars

\* A Bloom filter on its own: bloom.New(m, k), then Add calls. The sizes are
\* the degenerate one byte, a byte count of eight, and len(kvs)*8+1 of a
\* table of one, two or three keys.
BloomSizes == {1, 8, 9, 17, 25}

InitBloom ==
    /\ EngineIdle
    /\ \E m \in BloomSizes, k \in 1..BloomK : filter = BloomNew(m, k)
    /\ added = [key \in MemKeys |-> 0]
    /\ tree = <<>>
    /\ calls = <<>>
    /\ lastOp = [name |-> "bloom.New", merged |-> FALSE]

BloomAddCall(s) ==
    /\ added[s] < MaxAdds
    /\ filter' = BloomAdd(filter, s)
    /\ added' = [added EXCEPT ![s] = @ + 1]
    /\ lastOp' = [name |-> "Bloom.Add", merged |-> FALSE]
    /\ UNCHANGED <<engineVars, tree, calls>>

NextBloom == \E s \in MemKeys : BloomAddCall(s)

SpecBloom == InitBloom /\ [][NextBloom]_vars

\* A counting filter on its own: bloom.NewCounting(m, k), then Add and
\* Remove calls. A caller removes only a key it has added and not yet
\* removed.
CountingSizes == {1, 8, 17}

InitCounting ==
    /\ EngineIdle
    /\ \E m \in CountingSizes, k \in 1..BloomK : filter = NewCounting(m, k)
    /\ added = [key \in MemKeys |-> 0]
    /\ tree = <<>>
    /\ calls = <<>>
    /\ lastOp = [name |-> "bloom.NewCounting", merged |-> FALSE]

CountingAddCall(s) ==
    /\ added[s] < MaxAdds
    /\ filter' = CountingAdd(filter, s)
    /\ added' = [added EXCEPT ![s] = @ + 1]
    /\ lastOp' = [name |-> "CountingBloom.Add", merged |-> FALSE]
    /\ UNCHANGED <<engineVars, tree, calls>>

CountingRemoveCall(s) ==
    /\ added[s] > 0
    /\ filter' = CountingRemove(filter, s)
    /\ added' = [added EXCEPT ![s] = @ - 1]
    /\ lastOp' = [name |-> "CountingBloom.Remove", merged |-> FALSE]
    /\ UNCHANGED <<engineVars, tree, calls>>

NextCounting ==
    \/ \E s \in MemKeys : CountingAddCall(s)
    \/ \E s \in MemKeys : CountingRemoveCall(s)

SpecCounting == InitCounting /\ [][NextCounting]_vars

----
\* The size-tiered policy alone, over runs that sstable.New builds: a run of
\* one short record (4 bytes), a run of three records (13 bytes, more than
\* SizeRatio times the short one) and a run whose one value has MaxTableSize
\* bytes. The state keeps the run list and, in calls, which records each run
\* was built from; the files are TieredFiles, rebuilt from calls.

MaxRuns == 5
MaxOversize == 1

OversizeValue == [i \in 1..MaxTableSize |-> 49]

TieredRuns ==
    <<<<[Key |-> <<97>>, Value |-> <<49>>]>>,
      <<[Key |-> <<97>>, Value |-> <<49>>], [Key |-> <<98>>, Value |-> <<50, 50>>],
        [Key |-> <<99>>, Value |-> <<49>>]>>,
      <<[Key |-> <<97>>, Value |-> OversizeValue]>>>>

\* sstable.New(ss-0.sst, ...), sstable.New(ss-1.sst, ...), ... in turn
RECURSIVE BuildRuns(_, _)
BuildRuns(kinds, time) ==
    IF kinds = <<>> THEN [tables |-> <<>>, disk |-> EmptyMap]
    ELSE LET before == BuildRuns(SubSeq(kinds, 1, Len(kinds) - 1), time)
             r == SSTableNew(PathOf(Len(kinds) - 1), TieredRuns[kinds[Len(kinds)]],
                             before.disk, time)
         IN [tables |-> Append(before.tables, r.tbl), disk |-> r.disk]

TieredFiles == BuildRuns(calls, now).disk

Oversized(tables, dsk) ==
    {i \in 1..Len(tables) : getTableSize(tables[i], dsk) > MaxTableSize}

InitTiered ==
    /\ EngineIdle
    /\ filter = <<>>
    /\ added = <<>>
    /\ tree = <<>>
    /\ calls = <<>>
    /\ lastOp = [name |-> "NewSizeTieredStrategy", merged |-> FALSE]

\* sstable.New(path, kvs) of the next run of the list
TieredNewRunCall(kind) ==
    /\ Len(Tables) < MaxRuns
    /\ LET built == BuildRuns(Append(calls, kind), now) IN
       /\ Cardinality(Oversized(built.tables, built.disk)) <= MaxOversize
       /\ Tables' = built.tables
    /\ calls' = Append(calls, kind)
    /\ nextID' = nextID + 1
    /\ lastOp' = [name |-> "sstable.New", merged |-> FALSE]
    /\ UNCHANGED <<Mem, strategy, stats, disk, now, written, flushed, opens, compacted>>
    /\ UNCHANGED <<filter, added, tree>>

NextTiered == \E kind \in DOMAIN TieredRuns : TieredNewRunCall(kind)

SpecTiered == InitTiered /\ [][NextTiered]_vars

----
\* The leveled policy alone, over runs that sstable.New builds under file
\* names with and without a level marker ("ss-3.sst", "ss-L1-3.sst"): a run
\* of one short record (4 bytes) and a run whose one value has as many bytes
\* as the cap of level 1, which is more than the cap of level 0. The state
\* keeps the run list and, in calls, the level and the records each run was
\* built from; the files are LeveledFiles, rebuilt from calls.

MaxLevelRuns == 5
MaxMarkedLevel == 1

LevelCapValue == [i \in 1..LevelSizes[2] |-> 49]

LeveledRuns ==
    <<<<[Key |-> <<97>>, Value |-> <<49>>]>>,
      <<[Key |-> <<97>>, Value |-> LevelCapValue]>>>>

\* "ss-<id>.sst" for level 0, "ss-L<level>-<id>.sst" above it
LevelPathOf(level, id) ==
    IF level = 0 THEN PathOf(id)
    ELSE PathPrefix \o <<76>> \o Digits(level) \o <<45>> \o Digits(id) \o PathSuffix

RECURSIVE BuildLevelRuns(_, _)
BuildLevelRuns(kinds, time) ==
    IF kinds = <<>> THEN [tables |-> <<>>, disk |-> EmptyMap]
    ELSE LET before == BuildLevelRuns(SubSeq(kinds, 1, Len(kinds) - 1), time)
             kind == kinds[Len(kinds)]
             r == SSTableNew(LevelPathOf(kind.level, Len(kinds) - 1),
                             LeveledRuns[kind.run], before.disk, time)
         IN [tables |-> Append(before.tables, r.tbl), disk |-> r.disk]

LeveledFiles == BuildLevelRuns(calls, now).disk

InitLeveled ==
    /\ EngineIdle
    /\ filter = <<>>
    /\ added = <<>>
    /\ tree = <<>>
    /\ calls = <<>>
    /\ lastOp = [name |-> "NewLeveledStrategy", merged |-> FALSE]

\* sstable.New(path, kvs) of the next run of the list
LeveledNewRunCall(level, run) ==
    /\ Len(Tables) < MaxLevelRuns
    /\ calls' = Append(calls, [level |-> level, run |-> run])
    /\ Tables' = BuildLevelRuns(calls', now).tables
    /\ nextID' = nextID + 1
    /\ lastOp' = [name |-> "sstable.New", merged |-> FALSE]
    /\ UNCHANGED <<Mem, strategy, stats, disk, now, written, flushed, opens, compacted>>
    /\ UNCHANGED <<filter, added, tree>>

NextLeveled ==
    \E level \in 0..MaxMarkedLevel, run \in DOMAIN LeveledRuns :
        LeveledNewRunCall(level, run)

SpecLeveled == InitLeveled /\ [][NextLeveled]_vars

----
\* The tree under the size-tiered policy with threshold 1 and values of 1,
\* 10, 30 and MaxTableSize bytes for the key "a": every run file is one
\* line, and the four lines differ in size by more than SizeRatio. The
\* state keeps each file with its lines replaced by their index in
\* OversizeLines; ExpandFiles gives the files themselves and InternFiles
\* takes them back.

MaxOversizeID == 4

OversizeValues ==
    <<<<49>>, [i \in 1..10 |-> 49], [i \in 1..30 |-> 49], OversizeValue>>

OversizeLines ==
    [n \in DOMAIN OversizeValues |->
        FormatLine([Key |-> <<97>>, Value |-> OversizeValues[n]])]

ExpandFiles(dsk) ==
    [p \in DOMAIN dsk |->
        [lines |-> [i \in 1..Len(dsk[p].lines) |-> OversizeLines[dsk[p].lines[i]]],
         mtime |-> dsk[p].mtime]]

InternFiles(dsk) ==
    [p \in DOMAIN dsk |->
        [lines |-> [i \in 1..Len(dsk[p].lines) |->
                       CHOOSE n \in DOMAIN OversizeLines :
                           OversizeLines[n] = dsk[p].lines[i]],
         mtime |-> dsk[p].mtime]]

\* NewWithStrategy(dir, 1, NewSizeTieredStrategy()) on an empty directory
InitOversize == InitWith({1}, {"Size-Tiered"})

\* t.Put("a", value)
OversizePutCall(n) ==
    /\ nextID < MaxOversizeID
    /\ LET e == LSMPut([Engine EXCEPT !.disk = ExpandFiles(disk)],
                       <<97>>, OversizeValues[n], now)
       IN /\ Install([e EXCEPT !.disk = InternFiles(e.disk)])
          /\ compacted' = (compacted \/ e.nextID = nextID + 2)
          /\ lastOp' = [name |-> "Put", merged |-> (e.nextID = nextID + 2)]
    /\ UNCHANGED <<now, written, flushed, opens>>
    /\ UNCHANGED others

\* t.CompactWithStrategy()
OversizeCompactWithStrategyCall ==
    /\ nextID < MaxOversizeID
    /\ LET e == CompactWithStrategy([Engine EXCEPT !.disk = ExpandFiles(disk)], now)
       IN /\ Install([e EXCEPT !.disk = InternFiles(e.disk)])
          /\ compacted' = (compacted \/ e.nextID # nextID)
          /\ lastOp' = [name |-> "CompactWithStrategy", merged |-> (e.nextID # nextID)]
    /\ UNCHANGED <<now, written, flushed, opens>>
    /\ UNCHANGED others

NextOversize ==
    \/ \E n \in DOMAIN OversizeValues : OversizePutCall(n)
    \/ OversizeCompactWithStrategyCall

SpecOversize == InitOversize /\ [][NextOversize]_vars

----
\* The tree with calls of GetCompactionInfo between its writes and its
\* changes of policy; the CompactionInfo returned is kept in lastOp.

MaxInfoID == 3

\* t.GetCompactionInfo()
GetCompactionInfoCall ==
    /\ lastOp' = [name |-> "GetCompactionInfo", merged |-> FALSE,
                  info |-> GetCompactionInfo(Engine)]
    /\ UNCHANGED engineVars
    /\ UNCHANGED others

NextInfo ==
    \/ \E key \in Keys, value \in Values : PutCall(key, value, MaxInfoID)
    \/ \E strat \in Strategies : SetStrategyCall(strat)
    \/ GetCompactionInfoCall

SpecInfo == Init /\ [][NextInfo]_vars

----
\* sstable.Load alone, over files of a directory that hold record lines and
\* lines without the tab delimiter.

MaxLoadLines == 2
MaxLoads == 2

LoadLines == {<<97, TAB, 49>>, <<98, TAB, 50, 50>>, <<97>>, <<99>>}

RECURSIVE SeqsUpTo(_, _)
SeqsUpTo(set, n) ==
    IF n = 0 THEN {<<>>}
    ELSE LET shorter == SeqsUpTo(set, n - 1)
         IN shorter \cup {Append(q, x) : q \in shorter, x \in set}

LoadPaths == {PathOf(0), PathOf(1)}

InitLoad ==
    /\ EngineIdle
    /\ OthersIdle
    /\ lastOp = [name |-> "none", merged |-> FALSE]

\* a file of the directory comes into being with the given lines
WriteFileCall(path, lines) ==
    /\ path \notin DOMAIN disk
    /\ disk' = [p \in DOMAIN disk \cup {path} |->
                   IF p = path THEN [lines |-> lines, mtime |-> now] ELSE disk[p]]
    /\ lastOp' = [name |-> "WriteFile", merged |-> FALSE]
    /\ UNCHANGED <<Mem, Tables, nextID, strategy, stats, now, written, flushed,
                   opens, compacted>>
    /\ UNCHANGED others

\* sstable.Load(path): the run is kept when no error is returned
LoadCall(path) ==
    /\ Len(Tables) < MaxLoads
    /\ Tables' = IF LoadErr(path, disk) THEN Tables
                 ELSE Append(Tables, Load(path, disk))
    /\ lastOp' = [name |-> "sstable.Load", merged |-> FALSE,
                  path |-> path, err |-> LoadErr(path, disk)]
    /\ UNCHANGED <<Mem, nextID, strategy, stats, disk, now, written, flushed,
                   opens, compacted>>
    /\ UNCHANGED others

NextLoad ==
    \/ \E path \in LoadPaths, lines \in SeqsUpTo(LoadLines, MaxLoadLines) :
          WriteFileCall(path, lines)
    \/ \E path \in LoadPaths : LoadCall(path)

SpecLoad == InitLoad /\ [][NextLoad]_vars

----
\* A counting filter of one counter, which every key shares, under Add and
\* Remove calls in any order and number; lastOp tells whether the call met
\* the counter at its cap or at zero.

InitSaturate ==
    /\ EngineIdle
    /\ \E k \in 1..BloomK : filter = NewCounting(1, k)
    /\ added = <<>>
    /\ tree = <<>>
    /\ calls = <<>>
    /\ lastOp = [name |-> "bloom.NewCounting", merged |-> FALSE,
                 atCap |-> FALSE, atZero |-> FALSE]

SaturateAddCall(s) ==
    /\ filter' = CountingAdd(filter, s)
    /\ lastOp' = [name |-> "CountingBloom.Add", merged |-> FALSE,
                  atCap |-> filter.counters[0] = CounterMax, atZero |-> FALSE]
    /\ UNCHANGED <<engineVars, added, tree, calls>>

SaturateRemoveCall(s) ==
    /\ filter' = CountingRemove(filter, s)
    /\ lastOp' = [name |-> "CountingBloom.Remove", merged |-> FALSE,
                  atCap |-> FALSE, atZero |-> filter.counters[0] = 0]
    /\ UNCHANGED <<engineVars, added, tree, calls>>

NextSaturate ==
    \/ \E s \in MemKeys : SaturateAddCall(s)
    \/ \E s \in MemKeys : SaturateRemoveCall(s)

SpecSaturate == InitSaturate /\ [][NextSaturate]_vars

----
\* A counting filter of one counter under well-formed use up to the cap: a
\* caller removes only a key it has added more often than removed. added
\* holds the Adds of a key less its Removes.

MaxCappedAdds == 128
CappedKeys == {<<97>>, <<98>>}

InitCapped ==
    /\ EngineIdle
    /\ \E k \in 1..BloomK : filter = NewCounting(1, k)
    /\ added = [key \in CappedKeys |-> 0]
    /\ tree = <<>>
    /\ calls = <<>>
    /\ lastOp = [name |-> "bloom.NewCounting", merged |-> FALSE]

CappedAddCall(s) ==
    /\ added[<<97>>] + added[<<98>>] < MaxCappedAdds
    /\ filter' = CountingAdd(filter, s)
    /\ added' = [added EXCEPT ![s] = @ + 1]
    /\ lastOp' = [name |-> "CountingBloom.Add", merged |-> FALSE]
    /\ UNCHANGED <<engineVars, tree, calls>>

CappedRemoveCall(s) ==
    /\ added[s] > 0
    /\ filter' = CountingRemove(filter, s)
    /\ added' = [added EXCEPT ![s] = @ - 1]
    /\ lastOp' = [name |-> "CountingBloom.Remove", merged |-> FALSE]
    /\ UNCHANGED <<engineVars, tree, calls>>

NextCapped ==
    \/ \E s \in CappedKeys : CappedAddCall(s)
    \/ \E s \in CappedKeys : CappedRemoveCall(s)

SpecCapped == InitCapped /\ [][NextCapped]_vars

----
\* Properties.

\* what Get owes a reader who is entitled to the map m
ExpectedGet(m, key) ==
    IF key \in DOMAIN m
    THEN [value |-> m[key], found |-> TRUE, err |-> FALSE]
    ELSE [value |-> <<>>, found |-> FALSE, err |-> FALSE]

\* the sequence number in a file name ss-<n>.sst
PathID(path) == ScanDigits(SubSeq(path, Len(PathPrefix) + 1, Len(path)), 0)

\* whether the file of a run holds the key, and with which value
RunValue(table, key) == ScanLines(disk[table.Path].lines, 1, key)

\* C1: in an instance opened on an empty directory, after any Puts with
\* their flushes and before any compaction, Get of a key returns the value
\* of its most recent Put, and not-found for a key never put.
C1_GetReturnsLastPut ==
    (opens = 0 /\ ~compacted) =>
        \A key \in Keys : LSMGet(Engine, key) = ExpectedGet(written, key)

\* C1's case: a key overwritten across two flushed runs, and a key never put.
C1_Witness ==
    /\ opens = 0 /\ ~compacted
    /\ Len(Tables) >= 2
    /\ \E key \in Keys :
          /\ RunValue(Tables[1], key).found
          /\ RunValue(Tables[2], key).found
          /\ RunValue(Tables[1], key).value # RunValue(Tables[2], key).value
          /\ key \notin DOMAIN Mem.Data
    /\ \E key \in Keys : key \notin DOMAIN written

\* every key reads as the value its reader is entitled to
ReadsCorrect ==
    \A key \in Keys : LSMGet(Engine, key) = ExpectedGet(written, key)

\* C2: after Compact() every key's Get equals its last-written value, and
\* the run count becomes 1 whenever at least 2 runs existed. Stated for a
\* Compact step taken from a state whose reads are the last-written values.
C2_CompactKeepsLastWritten ==
    [][(CompactCall(MaxID) /\ ReadsCorrect) =>
          /\ ReadsCorrect'
          /\ Len(Tables) >= 2 => Len(Tables') = 1]_vars

\* C3: after at least two runs were flushed and the directory is opened
\* again, Get returns every flushed pair with its last flushed value, and
\* not-found for what never reached a run.
C3_RecoveryReturnsFlushed ==
    (lastOp.name = "Open" /\ Len(Tables) >= 2) =>
        \A key \in Keys : LSMGet(Engine, key) = ExpectedGet(flushed, key)

\* C4: the run list never holds two runs of the same file name ss-<n>.sst.
C4_NoDuplicateRuns ==
    \A i, j \in 1..Len(Tables) : i < j => Tables[i].Path # Tables[j].Path

\* C5: nextID is strictly greater than the sequence number of every run of
\* the run list.
C5_NextIDAboveRuns ==
    \A i \in 1..Len(Tables) : PathID(Tables[i].Path) < nextID

\* C6: a run file that exists before and after a step has the same content:
\* no flush or compaction rewrites the file of a run that still exists.
C6_RunFilesImmutable ==
    [][\A path \in DOMAIN disk \cap DOMAIN disk' :
          disk'[path].lines = disk[path].lines]_vars

\* C7: after open the run list is in ascending order of sequence number.
C7_OpenOrdersBySequence ==
    lastOp.name = "Open" =>
        \A i, j \in 1..Len(Tables) :
            i < j => PathID(Tables[i].Path) < PathID(Tables[j].Path)

\* what C8 asks of a policy compaction that takes the engine from pre to
\* post after merging the s >= 2 selected runs
PolicyCompactionFrame(pre, post) ==
    LET selected == SelectTables(pre.strategy, pre.Tables, pre.disk)
        s == Len(selected)
        selectedPaths == {selected[i].Path : i \in 1..s}
        unselected == SelectSeq(pre.Tables,
                                LAMBDA t : \A i \in 1..s : selected[i] # t)
        newPath == PathOf(pre.nextID)
    IN (s >= 2 /\ post.nextID = pre.nextID + 1) =>
          /\ Len(post.Tables) = Len(pre.Tables) - (s - 1)
          /\ SubSeq(post.Tables, 1, Len(post.Tables) - 1) = unselected
          /\ post.Tables[Len(post.Tables)].Path = newPath
          /\ newPath \notin DOMAIN pre.disk
          /\ DOMAIN post.disk = (DOMAIN pre.disk \ selectedPaths) \cup {newPath}
          /\ \A i \in 1..Len(unselected) :
                post.disk[unselected[i].Path] = pre.disk[unselected[i].Path]

\* C8: a policy compaction of s >= 2 selected runs lowers the run count by
\* s - 1, removes exactly the selected runs from the disk and the list,
\* appends one new run and leaves every unselected run and its file alone.
C8_PolicyCompactionFrame ==
    [][/\ (CompactWithStrategyCall(MaxID) /\ strategy # "nil")
             => PolicyCompactionFrame(Engine, Engine')
       /\ \A key \in Keys, value \in Values :
             (PutCall(key, value, MaxID) /\ PutCompacts(Engine, key, value, now))
                => PolicyCompactionFrame(PutFlush(Engine, key, value, now), Engine')]_vars

\* C9: a policy compaction, called directly or inside Put, leaves the
\* result of Get unchanged for every key.
C9_PolicyCompactionPreservesReads ==
    [][/\ (CompactWithStrategyCall(MaxID) /\ strategy # "nil")
             => \A k \in Keys : LSMGet(Engine', k) = LSMGet(Engine, k)
       /\ \A key \in Keys, value \in Values :
             (PutCall(key, value, MaxID) /\ PutCompacts(Engine, key, value, now))
                => \A k \in Keys :
                      LSMGet(Engine', k) = LSMGet(PutFlush(Engine, key, value, now), k)]_vars

\* IsFull says whether the keys put since the last flush reach the threshold
FullnessMatchesCount ==
    IsFull(Mem) <=> (Cardinality(DOMAIN written) >= Mem.FlushThreshold)

\* C10: IsFull is true exactly when the number of distinct keys put reaches
\* the threshold, and a Put that overwrites a key leaves IsFull as it was.
C10_IsFullIffThreshold ==
    /\ FullnessMatchesCount
    /\ [][/\ FullnessMatchesCount'
          /\ \A key \in MemKeys, value \in Values :
                (MemtablePutCall(key, value) /\ key \in DOMAIN Mem.Data)
                   => (IsFull(Mem') <=> IsFull(Mem))]_vars

\* C10's case: a memtable of threshold T >= 2 that holds exactly T distinct
\* keys, is full, and whose last Put overwrote one of them
C10_Witness ==
    /\ lastOp.name = "Memtable.Put overwrite"
    /\ Mem.FlushThreshold >= 2
    /\ Cardinality(DOMAIN Mem.Data) = Mem.FlushThreshold
    /\ IsFull(Mem)

\* C11: in every state between calls, so after every Put, the write buffer
\* holds strictly fewer distinct keys than its threshold T: a Put whose write
\* brings the buffer to T keys flushes it before it returns.
C11_BufferBelowThreshold ==
    Cardinality(DOMAIN Mem.Data) < Mem.FlushThreshold

\* C11's case: a Put on a threshold of 2 has just flushed both keys into the
\* newest run and left the buffer empty
C11_Witness ==
    /\ lastOp.name = "Put"
    /\ Mem.FlushThreshold = 2
    /\ Mem.Data = EmptyMap
    /\ Len(Tables) >= 1
    /\ Tables[Len(Tables)].Path \in DOMAIN disk
    /\ Len(disk[Tables[Len(Tables)].Path].lines) = 2

\* C12: the Bloom filter has no false negatives: every key that was added
\* is reported by Contains, right after its Add and after every later Add
\* of another key.
C12_NoFalseNegatives ==
    \A key \in MemKeys : added[key] > 0 => BloomContains(filter, key)

\* C12's case: two keys were added, the second after the first, to a filter
\* that still tells the third key apart
C12_Witness ==
    /\ lastOp.name = "Bloom.Add"
    /\ \E k1, k2, k3 \in MemKeys :
          /\ k1 # k2
          /\ added[k1] > 0 /\ added[k2] > 0 /\ added[k3] = 0
          /\ BloomPositions(filter, k1) # BloomPositions(filter, k2)
          /\ ~BloomContains(filter, k3)

\* the positions of key are shared with no key that is in the filter
NoCollision(key) ==
    \A other \in MemKeys \ {key} :
        added[other] > 0 =>
            CountingPositions(filter, key) \cap CountingPositions(filter, other) = {}

\* C13: a key that was added and removed as often, and whose positions
\* collide with those of no key in the filter, is reported absent; a key
\* that is in the filter is reported present whatever else was removed.
C13_CountingRemoval ==
    \A key \in MemKeys :
        /\ (added[key] = 0 /\ NoCollision(key)) => ~CountingContains(filter, key)
        /\ added[key] > 0 => CountingContains(filter, key)

\* C13's case: the Remove of a key (the other two keys are in the filter
\* as often as a key may be, so the removed key is the absent one) whose
\* positions collide with neither of the keys that stay
C13_Witness ==
    /\ lastOp.name = "CountingBloom.Remove"
    /\ \E k1 \in MemKeys :
          /\ added[k1] = 0
          /\ NoCollision(k1)
          /\ \A k2 \in MemKeys \ {k1} :
                added[k2] = MaxAdds /\ CountingContains(filter, k2)

\* C14: Stats() is non-nil exactly when the instance was opened with a
\* policy, whatever was called on it since.
C14_StatsIffPolicy ==
    (stats # NoStats) <=> calls.policy

\* C14's case: an instance opened without a policy that was given one by
\* SetStrategy and has flushed and read since, and still has no statistics
C14_Witness ==
    /\ ~calls.policy
    /\ strategy # "nil"
    /\ stats = NoStats
    /\ calls.puts >= 2 /\ calls.gets >= 1
    /\ Len(Tables) >= 1

\* C15: with statistics enabled TotalWrites is the number of Put calls and
\* TotalReads the number of Get calls made on the instance.
C15_TotalsCountCalls ==
    stats # NoStats =>
        /\ stats[1].TotalWrites = calls.puts
        /\ stats[1].TotalReads = calls.gets

\* C15's case: Puts that flushed and were compacted, and Gets of which one
\* hit and one missed
C15_Witness ==
    /\ stats # NoStats
    /\ calls.puts >= 2
    /\ calls.gets = 2
    /\ compacted
    /\ stats[1].TotalFlushes >= 1
    /\ stats[1].MemtableHits + stats[1].SSTableHits = 1

\* number of entries of the subtree of n whose key is key
RECURSIVE CountKey(_, _)
CountKey(n, key) ==
    LET RECURSIVE Sum(_)
        Sum(i) == IF i > Len(n.Children) THEN 0
                  ELSE CountKey(n.Children[i], key) + Sum(i + 1)
    IN Cardinality({i \in 1..Len(n.Keys) : n.Keys[i] = key}) + Sum(1)

\* C16: after a Put of a key, also of a key the tree holds, Get returns the
\* value just put and the tree holds a single entry for the key.
C16_PutInsertsOrUpdates ==
    [][\A key \in BTreeKeys, value \in Values :
          BTreePutCall(key, value) =>
              /\ Search(tree', key) = [value |-> value, ok |-> TRUE]
              /\ CountKey(tree'.Root, key) = 1]_vars

\* C17: after a Delete of a key Get does not find it, and every other key
\* that was put and not deleted is found with its value as before.
C17_DeleteRemovesOnlyKey ==
    [][\A key \in BTreeKeys :
          BTreeDeleteCall(key) =>
              /\ ~Search(tree', key).ok
              /\ \A other \in DOMAIN written \ {key} :
                    /\ Search(tree', other).ok
                    /\ Search(tree', other) = Search(tree, other)]_vars

\* what C18 asks of a policy compaction that takes the engine from pre to
\* post: for every key the output run holds the value of the selected run
\* that stands last in the run list among those holding the key
PolicyMergeNewestWins(pre, post) ==
    LET selected == SelectTables(pre.strategy, pre.Tables, pre.disk)
        s == Len(selected)
        newPath == PathOf(pre.nextID)
        Holders(key) ==
            {i \in 1..Len(pre.Tables) :
                /\ \E j \in 1..s : selected[j] = pre.Tables[i]
                /\ pre.Tables[i].Path \in DOMAIN pre.disk
                /\ ScanLines(pre.disk[pre.Tables[i].Path].lines, 1, key).found}
        Newest(key) == CHOOSE i \in Holders(key) : \A j \in Holders(key) : j <= i
    IN (s >= 2 /\ post.nextID = pre.nextID + 1 /\ newPath \in DOMAIN post.disk) =>
          \A key \in Keys :
              Holders(key) # {} =>
                  ScanLines(post.disk[newPath].lines, 1, key)
                      = ScanLines(pre.disk[pre.Tables[Newest(key)].Path].lines, 1, key)

\* C18: a policy compaction, called directly or inside Put, merges the
\* selected runs in run-list order: the output run holds for every key the
\* value of the most recently created selected run that holds the key.
C18_PolicyMergeInRunOrder ==
    [][/\ (CompactWithStrategyCall(MaxID) /\ strategy # "nil")
             => PolicyMergeNewestWins(Engine, Engine')
       /\ \A key \in Keys, value \in Values :
             (PutCall(key, value, MaxID) /\ PutCompacts(Engine, key, value, now))
                => PolicyMergeNewestWins(PutFlush(Engine, key, value, now), Engine')]_vars

\* whether sub is a subsequence of full: the elements of sub, in their
\* order, at increasing positions of full
RECURSIVE IsSubsequence(_, _)
IsSubsequence(sub, full) ==
    IF sub = <<>> THEN TRUE
    ELSE IF full = <<>> THEN FALSE
    ELSE IF Head(sub) = Head(full) THEN IsSubsequence(Tail(sub), Tail(full))
    ELSE IsSubsequence(sub, Tail(full))

\* C19: for each of the three policies SelectTables of the run list returns
\* a subsequence of it: runs of the list only, each at most once, in the
\* order of the list.
C19_SelectTablesIsSubsequence ==
    \A strat \in Strategies :
        IsSubsequence(SelectTables(strat, Tables, disk), Tables)

\* the positions of the run list whose file holds the key
Holders(key) ==
    {i \in 1..Len(Tables) :
        Tables[i].Path \in DOMAIN disk /\ RunValue(Tables[i], key).found}

\* what the lookup order of C20 gives for a key: the buffer's value, else
\* the value of the last run of the list that holds the key, else not-found
LookupOrderResult(key) ==
    IF key \in DOMAIN Mem.Data
    THEN [value |-> Mem.Data[key], found |-> TRUE, err |-> FALSE]
    ELSE IF Holders(key) # {}
    THEN LET newest == CHOOSE i \in Holders(key) : \A j \in Holders(key) : j <= i
         IN [value |-> RunValue(Tables[newest], key).value,
             found |-> TRUE, err |-> FALSE]
    ELSE [value |-> <<>>, found |-> FALSE, err |-> FALSE]

\* C20: whenever the files of all runs can be read, Get returns the buffer's
\* value for a key of the buffer whatever the runs hold, otherwise the value
\* of the last run of the run list that holds the key, and not-found only
\* when the buffer and every run miss.
C20_GetLookupOrder ==
    (\A i \in 1..Len(Tables) : Tables[i].Path \in DOMAIN disk) =>
        \A key \in Keys : LSMGet(Engine, key) = LookupOrderResult(key)

\* C20's case: a key of the buffer whose value differs from the one the
\* newest run holds, and a key outside the buffer that two runs hold with
\* different values
C20_Witness ==
    /\ Len(Tables) >= 2
    /\ \A i \in 1..Len(Tables) : Tables[i].Path \in DOMAIN disk
    /\ \E k1 \in DOMAIN Mem.Data :
          /\ RunValue(Tables[Len(Tables)], k1).found
          /\ RunValue(Tables[Len(Tables)], k1).value # Mem.Data[k1]
    /\ \E k2 \in Keys \ DOMAIN Mem.Data :
          /\ RunValue(Tables[1], k2).found
          /\ RunValue(Tables[Len(Tables)], k2).found
          /\ RunValue(Tables[1], k2).value
                # RunValue(Tables[Len(Tables)], k2).value

\* C21: Memtable.Flush returns exactly one record for each distinct key put
\* since the last flush, with the last value written for it, in strictly
\* ascending key order, and leaves the memtable empty: every key misses in
\* Memtable.Get and IsFull is false.
C21_FlushSortedDedupReset ==
    [][MemtableFlushCall =>
         /\ Len(flushed') = Cardinality(DOMAIN written)
         /\ \A i \in 1..Len(flushed') :
               /\ flushed'[i].Key \in DOMAIN written
               /\ flushed'[i].Value = written[flushed'[i].Key]
         /\ \A i \in 1..(Len(flushed') - 1) :
               StrLess(flushed'[i].Key, flushed'[i + 1].Key)
         /\ \A key \in MemKeys : ~MemtableGet(Mem', key).ok
         /\ ~IsFull(Mem')]_vars

\* C21's case: a Flush that came right after a Put overwrote a key returned
\* at least two records and left the memtable empty
C21_Witness ==
    /\ lastOp.name = "Memtable.Flush after overwrite"
    /\ Len(flushed) >= 2
    /\ Mem.Data = EmptyMap

\* the plain linear scan of a run file: the first line whose key matches
PlainScan(table, key) == ScanLines(disk[table.Path].lines, 1, key)

\* key is the key of some record line of the file of the run
KeyInLines(lines, key) ==
    \E i \in 1..Len(lines) :
        LET parts == SplitN2(lines[i]) IN Len(parts) = 2 /\ parts[1] = key

InFile(table, key) == KeyInLines(disk[table.Path].lines, key)

\* C22: for every run of the tree whose file exists and for every key,
\* SSTable.Get returns the (value, found) of the plain linear scan of the
\* file, and the filter answers no only for keys that are not in the file.
C22_FilterIsPureOptimisation ==
    \A i \in 1..Len(Tables) : \A key \in MemKeys :
        Tables[i].Path \in DOMAIN disk =>
            /\ SSTableGet(Tables[i], disk, key).value = PlainScan(Tables[i], key).value
            /\ SSTableGet(Tables[i], disk, key).found = PlainScan(Tables[i], key).found
            /\ ~BloomContains(Tables[i].Bloom, key) => ~InFile(Tables[i], key)

\* key is in the file of some run of the list
InSomeRun(key) ==
    \E i \in 1..Len(Tables) :
        Tables[i].Path \in DOMAIN disk /\ InFile(Tables[i], key)

\* C23: Compact() with fewer than 2 runs changes neither the run list, the
\* files, nextID nor the statistics; and no Compact() changes the write
\* buffer, nor writes a key that is only in the buffer to the merged run.
C23_CompactFrame ==
    [][lastOp'.name = "Compact" =>
         /\ Mem' = Mem
         /\ Len(Tables) < 2 => UNCHANGED <<Tables, disk, nextID, stats>>
         /\ \A key \in DOMAIN Mem.Data :
               (lastOp'.merged /\ ~InSomeRun(key)
                   /\ Tables'[1].Path \in DOMAIN disk')
                  => ~KeyInLines(disk'[Tables'[1].Path].lines, key)]_vars

\* C23's case: after an earlier merge, a Compact() on a single run and a
\* buffer holding a key that is in no run did nothing
C23_Witness ==
    /\ lastOp.name = "Compact"
    /\ ~lastOp.merged
    /\ compacted
    /\ Len(Tables) = 1
    /\ \E key \in DOMAIN Mem.Data : ~InSomeRun(key)

\* C24: size-tiered ShouldCompact is true exactly when the run count is at
\* least MinTables and some tier holds at least MinTables runs, or some run
\* is larger than MaxTableSize, whatever the run count; and SelectTables
\* returns a tier that no other tier outnumbers.
C24_SizeTieredTrigger ==
    LET tiers == groupBySize(Tables, TieredFiles)
        selected == SizeTieredSelectTables(Tables, TieredFiles)
    IN /\ SizeTieredShouldCompact(Tables, TieredFiles) <=>
             \/ /\ Len(Tables) >= MinTables
                /\ \E i \in 1..Len(tiers) : Len(tiers[i]) >= MinTables
             \/ Oversized(Tables, TieredFiles) # {}
       /\ Tables # <<>> =>
             /\ \E i \in 1..Len(tiers) : tiers[i] = selected
             /\ \A i \in 1..Len(tiers) : Len(tiers[i]) <= Len(selected)

\* the trigger condition of a level: the run count on level 0, the aggregate
\* size against the cap on the levels above it
LevelTriggers(level) ==
    /\ LevelTables(Tables, level) # <<>>
    /\ IF level = 0
       THEN Len(LevelTables(Tables, 0)) >= Level0Tables
       ELSE TotalSize(LevelTables(Tables, level), LeveledFiles) > getLevelMaxSize(level)

\* C25: leveled ShouldCompact is true exactly when some level triggers,
\* level 0 on its run count alone and a level above it on its aggregate
\* size; SelectTables returns all runs of the lowest level that triggers and
\* nothing when none does, so it is non-empty exactly when ShouldCompact is
\* true.
C25_LeveledTrigger ==
    LET triggering == {level \in 0..MaxLevel : LevelTriggers(level)}
        selected == LeveledSelectTables(Tables, LeveledFiles)
    IN /\ LeveledShouldCompact(Tables, LeveledFiles) <=> (triggering # {})
       /\ selected =
             IF triggering = {} THEN <<>>
             ELSE LevelTables(Tables, CHOOSE level \in triggering :
                                          \A other \in triggering : level <= other)
       /\ (selected # <<>>) <=> LeveledShouldCompact(Tables, LeveledFiles)

\* more than MaxAge seconds have passed since the file of the run was last
\* modified
ElapsedOld(table) ==
    table.Path \in DOMAIN disk /\ now - disk[table.Path].mtime > MaxAge

\* C26: under the time-based policy a run is old exactly when the time
\* since its file's last modification exceeds MaxAge; ShouldCompact is true
\* iff at least MinTables runs are old and SelectTables returns exactly the
\* old runs.
C26_TimeBasedByAge ==
    strategy = "Time-Based" =>
        /\ \A i \in 1..Len(Tables) : isOld(Tables[i], disk) <=> ElapsedOld(Tables[i])
        /\ TimeBasedShouldCompact(Tables, disk) <=>
              Len(SelectSeq(Tables, ElapsedOld)) >= TimeMinTables
        /\ TimeBasedSelectTables(Tables, disk) = SelectSeq(Tables, ElapsedOld)

\* C27: a Put, Compact or CompactWithStrategy call raises CompactionCount
\* by one when it merged runs into a new run, and leaves it unchanged when
\* it returned without replacing any run.
C27_CompactionCountCountsMerges ==
    [][(stats # NoStats /\ lastOp'.name \in {"Put", "Compact", "CompactWithStrategy"})
          => stats'[1].CompactionCount =
                stats[1].CompactionCount + (IF lastOp'.merged THEN 1 ELSE 0)]_vars

\* C28: GetCompactionInfo changes neither the buffer, the run list, nextID,
\* the statistics, the policy nor any file; without a policy it reports
\* "Basic", ShouldCompact iff at least 2 runs exist and SelectedCount equal
\* to the run count; with a policy it reports the policy's name, its
\* ShouldCompact and the size of its selection; TableCount is always the
\* length of the run list.
C28_CompactionInfoReadOnly ==
    [][lastOp'.name = "GetCompactionInfo" =>
         /\ UNCHANGED <<Mem, Tables, nextID, stats, strategy, disk>>
         /\ lastOp'.info.TableCount = Len(Tables)
         /\ IF strategy = "nil"
            THEN /\ lastOp'.info.Strategy = "Basic"
                 /\ lastOp'.info.ShouldCompact <=> (Len(Tables) >= 2)
                 /\ lastOp'.info.SelectedCount = Len(Tables)
            ELSE /\ lastOp'.info.Strategy = strategy
                 /\ lastOp'.info.ShouldCompact <=> ShouldCompact(strategy, Tables, disk)
                 /\ lastOp'.info.SelectedCount =
                       Len(SelectTables(strategy, Tables, disk))]_vars

\* C28's case: GetCompactionInfo was called on a tree with a policy whose
\* ShouldCompact holds and that selects at least 2 of the runs
C28_Witness ==
    /\ lastOp.name = "GetCompactionInfo"
    /\ strategy # "nil"
    /\ lastOp.info.Strategy = strategy
    /\ lastOp.info.ShouldCompact
    /\ lastOp.info.SelectedCount >= 2

\* C29: whenever a file operation of a Compact or CompactWithStrategy call
\* fails, the deletion of a superseded run file included, the call returns
\* a non-nil error.
C29_NoSwallowedError ==
    [][/\ lastOp'.name = "Compact" =>
            (CompactFileOpFails(Engine, now) => CompactErr(Engine))
       /\ lastOp'.name = "CompactWithStrategy" =>
            (CompactWithStrategyFileOpFails(Engine, now)
                => CompactWithStrategyErr(Engine))]_vars

\* some line of the file has no tab delimiter
Malformed(lines) == \E i \in 1..Len(lines) : Len(SplitN2(lines[i])) < 2

\* C30: sstable.Load of a file that holds a line without the tab delimiter
\* returns an error, and no run.
C30_LoadRejectsMalformed ==
    (lastOp.name = "sstable.Load" /\ lastOp.path \in DOMAIN disk
        /\ Malformed(disk[lastOp.path].lines))
       => lastOp.err

\* C31: every counter of the counting filter stays within 0..255; an Add
\* on a counter at 255 leaves it at 255 and a Remove on a counter at 0
\* leaves it at 0.
C31_CountersSaturate ==
    /\ [](\A pos \in DOMAIN filter.counters : filter.counters[pos] \in 0..CounterMax)
    /\ [][\A pos \in DOMAIN filter.counters :
            /\ (lastOp'.name = "CountingBloom.Add" /\ filter.counters[pos] = CounterMax)
                  => filter'.counters[pos] = CounterMax
            /\ (lastOp'.name = "CountingBloom.Remove" /\ filter.counters[pos] = 0)
                  => filter'.counters[pos] = 0]_vars

\* C31's case: an Add met the counter at 255 and left it there
C31_Witness ==
    /\ lastOp.name = "CountingBloom.Add"
    /\ lastOp.atCap
    /\ filter.counters[0] = CounterMax

\* the keys of the lines of a file, in file order
FileKeys(lines) == [i \in 1..Len(lines) |-> SplitN2(lines[i])[1]]

\* C32: every run file written by a flush, by Compact or by
\* CompactWithStrategy holds its keys in strictly ascending lexicographic
\* order, so that no key appears twice.
C32_RunFilesSorted ==
    \A path \in DOMAIN disk :
        \A i \in 1..(Len(disk[path].lines) - 1) :
            StrLess(FileKeys(disk[path].lines)[i], FileKeys(disk[path].lines)[i + 1])

\* C32's case: a compaction has merged runs into a run of two keys, and a
\* flush of two keys has written a run after it
C32_Witness ==
    /\ compacted
    /\ lastOp.name = "Put"
    /\ Len(Tables) >= 2
    /\ \A i \in 1..Len(Tables) :
          /\ Tables[i].Path \in DOMAIN disk
          /\ Len(disk[Tables[i].Path].lines) = 2

\* the depths at which the leaves of the subtree of n lie, n at depth d
RECURSIVE LeafDepths(_, _)
LeafDepths(n, d) ==
    IF n.Leaf THEN {d}
    ELSE IF n.Children = <<>> THEN {}
    ELSE LET below(i) == LeafDepths(n.Children[i], d + 1)
         IN UNION {below(i) : i \in 1..Len(n.Children)}

\* the invariants of the node n alone, in a tree of order t
NodeWellFormed(n, t) ==
    /\ \A i \in 1..(Len(n.Keys) - 1) : ~StrLess(n.Keys[i + 1], n.Keys[i])
    /\ Len(n.Values) = Len(n.Keys)
    /\ ~n.Leaf => Len(n.Children) = Len(n.Keys) + 1
    /\ Len(n.Keys) <= 2 * t - 1

RECURSIVE SubtreeWellFormed(_, _)
SubtreeWellFormed(n, t) ==
    /\ NodeWellFormed(n, t)
    /\ \A i \in 1..Len(n.Children) : SubtreeWellFormed(n.Children[i], t)

C34_DurableAcrossReopen ==
    \A key \in DOMAIN written :
        LSMGet(Engine, key) = ExpectedGet(written, key)

\* the paths of the run list
RunPaths == {Tables[i].Path : i \in 1..Len(Tables)}

\* C35: after every successful open, Put, Compact or CompactWithStrategy the
\* .sst files of the data directory are exactly the paths of the run list.
\* No file operation fails in this specification, and a call that returns
\* an error changes neither the directory nor the run list, so the
\* agreement is stated of every state.
C35_RunListMatchesDirectory ==
    {path \in DOMAIN disk : HasSstExt(path)} = RunPaths

\* every key of an acknowledged Put reads as its last-written value
AcknowledgedReadable ==
    \A key \in DOMAIN written :
        LSMGet(Engine, key) = ExpectedGet(written, key)

\* C36: when building the run file fails during the flush inside Put, the
\* run list and nextID are unchanged and every key written by an earlier
\* successful Put is still returned by Get with its last-written value.
C36_FailedFlushLosesNothing ==
    [][(lastOp'.name = "Put failed" /\ AcknowledgedReadable) =>
          /\ Tables' = Tables
          /\ nextID' = nextID
          /\ AcknowledgedReadable']_vars

\* C37: on every run list on which the policy's ShouldCompact is true its
\* SelectTables returns at least 2 runs, so a CompactWithStrategy call in
\* that state strictly reduces the run count.
C37_PolicyCompactionProgress ==
    /\ [](ShouldCompact(strategy, Tables, ExpandFiles(disk)) =>
             Len(SelectTables(strategy, Tables, ExpandFiles(disk))) >= 2)
    /\ [][(/\ lastOp'.name = "CompactWithStrategy"
           /\ ShouldCompact(strategy, Tables, ExpandFiles(disk))) =>
             Len(Tables') < Len(Tables)]_vars

\* C38: in an engine opened with the leveled policy on an empty directory
\* the run list holds at most 3 runs after every Put that returned without
\* error. No call fails in this specification.
C38_LeveledRunCountBounded ==
    lastOp.name = "Put" => Len(Tables) <= 3

\* C38's case: the fourth flush since the last merge, whose Put merged the
\* four runs of level 0 into one, in an instance that had merged before.
C38_Witness ==
    /\ lastOp.name = "Put"
    /\ lastOp.merged
    /\ Len(Tables) = 1
    /\ PathID(Tables[1].Path) > 4

\* C39: under Add and Remove calls where a key is removed only while it has
\* more Adds than Removes, every key with more Adds than Removes is
\* contained, also when a counter has reached the cap of 255.
C39_NoFalseNegativesAtCap ==
    \A s \in CappedKeys : added[s] > 0 => CountingContains(filter, s)
====
